---- MODULE Spec2Model ----
(***************************************************************************)
(* A model of the Express server of the trading dashboard (src/server.js). *)
(* One HTTP request is served per behaviour: Init fixes the route, the     *)
(* request parameters and the content of the subgraph index, and the       *)
(* actions are the steps of the route's handler between two awaits.  The   *)
(* index does not change while a request is served, except in             *)
(* SpecOrderbookLive, where listings are filled and created between the    *)
(* page requests; every upstream request, to the index or to the game API, *)
(* may succeed or fail.                                                    *)
(*                                                                         *)
(* The last part models the TradingDashboard component of the client       *)
(* (src/unnamed/part_000): one mounted component per behaviour, its state, *)
(* its three interval timers and its fetches.  A function of the component *)
(* sees the state of the render it was created in, and a timer keeps the   *)
(* function it was started with.  Time advances in periods of 5 s.  The    *)
(* wallet panel of the component (SpecWallet) is modelled apart from its   *)
(* data panels, in seconds.                                                *)
(*                                                                         *)
(* Numbers.  ETH amounts are JavaScript doubles in the code; here they are *)
(* exact integers counted in units of 0.01 ETH, so a sum in the model is   *)
(* the left-to-right sum of the code without floating-point rounding.      *)
(* Strings sent by the index (BigInt and BigDecimal fields) are TLA+       *)
(* strings, parsed by ParseInt and toNumber.                               *)
(***************************************************************************)
EXTENDS Integers, Sequences, FiniteSets, TLC

VARIABLES
    endpoint,       \* the route that serves the request
    pc,             \* the position of the handler
    res,            \* the HTTP response, NoResponse until one is sent
    pending,        \* upstream queries issued and not yet answered
    sent,           \* every upstream query issued so far, in order
    answered,       \* the upstream answers received so far
    limit,          \* req.query.limit of /api/trades/:itemId
    idxTransfers,   \* the index: the purchase transfers of the item
    transfers,      \* data.transfers of /api/trades and /api/timeframe-data
    groupedTrades,  \* the Map of /api/trades/:itemId, in insertion order
    trades,         \* the sorted, truncated array of /api/trades/:itemId
    idxRows,        \* the index: the rows that match the paginated query of
                    \* the route, in the order of its orderBy
    allRows,        \* allTransfers / allListings / allItems of a fetch loop
    skip,           \* skip of a fetch loop
    hasMore,        \* hasMore of a fetch loop
    priceMap,       \* the Map of /api/orderbook/:itemId, in insertion order
    asks,           \* the sorted, truncated levels of /api/orderbook/:itemId
    timeframe,      \* req.query.timeframe of /api/timeframe-data/:itemId
    timestamp,      \* req.query.timestamp of /api/timeframe-data/:itemId
    idxItem,        \* the index: per item id, the item and its transfers of
                    \* the last 24h and of the 24h before, and its floor listing
    itemData,       \* itemData of /api/stats/:itemId, Unset until received
    transfersData,  \* transfersData of /api/stats/:itemId, Unset until received
    volume24hTransfers, \* volume24hTransfers of /api/stats
    volume48hTransfers, \* volume48hTransfers of /api/stats
    volumeSkip,     \* volumeSkip of /api/stats
    volumeHasMore,  \* volumeHasMore of /api/stats
    itemPc,         \* /api/stats: the position of each item's async callback
    itemLocals,     \* /api/stats: transfers24h, transfers48h of each callback
    stats,          \* /api/stats: the record each item's callback returned
    idxPosition,    \* the index: the userItemPosition of /api/balance
    now,            \* the dashboard: 5 s periods elapsed since the mount
    itemDetails,    \* the dashboard: Object.keys(itemDetails)
    marketData,     \* the dashboard: marketData, the body of /api/items
    currentItem,    \* the dashboard: currentItem, NoItem for null
    statsState,     \* the dashboard: stats
    recentTrades,   \* the dashboard: recentTrades
    orderBook,      \* the dashboard: orderBook
    allRecentTrades, \* the dashboard: allRecentTrades
    tickerIndex,    \* the dashboard: tickerIndex
    tickerRender,   \* the dashboard: the state seen by the callbacks of the
                    \* ticker effect, that of the render the effect ran after
    refreshElapsed, \* 5 s periods since setInterval(refreshData, 30000)
    tickerElapsed,  \* 5 s periods since setInterval(updateTicker, 5000)
    loadElapsed,    \* 5 s periods since
                    \* setInterval(loadRecentTradesForTicker, 120000)
    inflight,       \* the dashboard: fetches issued and not yet settled
    issued,         \* the dashboard: the number of fetches issued so far
    completed,      \* the dashboard: the fetch settled last and its outcome
    allTrades,      \* allTrades of the running loadRecentTradesForTicker
    clicks,         \* the number of items the user has clicked on
    isConnected,    \* the wallet: isConnected of useAccount
    abstractClient, \* the wallet: whether useAbstractClient has a client
    sessionKey,     \* the wallet: sessionKey, NoSession for null
    sessionExpiry,  \* the wallet: sessionExpiry, NoExpiry for null
    loading,        \* the wallet: loading
    message,        \* the wallet: message
    messageOp,      \* the wallet: the operation that set the message shown
    timeouts,       \* the wallet: the pending setTimeout(() => setMessage(''))
    calls,          \* the wallet: the calls of the wallet library awaited
    seconds,        \* the wallet: Date.now() in seconds since the mount
    started         \* the wallet: the number of operations started so far

requestVars == <<endpoint, pc, res, pending, sent, answered>>
tradesVars == <<limit, idxTransfers, transfers, groupedTrades, trades>>
loopVars == <<idxRows, allRows, skip, hasMore>>
orderbookVars == <<priceMap, asks>>
timeframeVars == <<timeframe, timestamp>>
itemStatsVars == <<idxItem, itemData, transfersData>>
marketVars == <<volume24hTransfers, volume48hTransfers, volumeSkip,
                volumeHasMore, itemPc, itemLocals, stats>>
balanceVars == <<idxPosition>>
serverVars == <<requestVars, tradesVars, loopVars, orderbookVars, timeframeVars,
                itemStatsVars, marketVars, balanceVars>>
stateVars == <<itemDetails, marketData, currentItem, statsState, recentTrades,
               orderBook, allRecentTrades, tickerIndex>>
timerVars == <<now, tickerRender, refreshElapsed, tickerElapsed, loadElapsed>>
fetchVars == <<inflight, issued, completed, allTrades>>
walletVars == <<isConnected, abstractClient, sessionKey, sessionExpiry,
                loading, message, messageOp, timeouts, calls, seconds,
                started>>
clientVars == <<stateVars, timerVars, fetchVars, clicks, walletVars>>

vars == <<serverVars, clientVars>>

----------------------------------------------------------------------------
(* Bounds of the model *)

MaxTransfers == 3   \* transfers of the item held by the index
MaxLimit == 2       \* largest explicit ?limit= of /api/trades
MaxUnits == 110     \* largest number the index serialises (ETH in 0.01 ETH)
MaxListings == 4    \* listings of an order book enumerated in full
MaxBook == 103      \* listings of the order books around the 100-level cut
MaxItems == 2001    \* items of the largest index
MaxWindow == 2      \* transfers of one item in one 24h window
MaxStatItems == 2   \* items of the index served by /api/stats
MaxFrameRows == 2   \* transfers of the index seen by /api/timeframe-data
MaxBatchItems == 11  \* items of the index that fill more than one batch
MaxTicks == 24      \* 5 s periods the dashboard is watched for
MaxClicks == 1      \* items the user clicks on
MaxFills == 1       \* listings filled while /api/orderbook is served
MaxNewListings == 1 \* listings created while /api/orderbook is served
MaxOps == 3         \* wallet operations the user starts
MaxSeconds == 3     \* seconds during which wallet operations are started

----------------------------------------------------------------------------
(* Strings of the index and their conversions *)

NoResponse == [status |-> 0, body |-> "none"]
Absent == "undefined"

Digit(d) ==
    CASE d = 0 -> "0" [] d = 1 -> "1" [] d = 2 -> "2" [] d = 3 -> "3"
      [] d = 4 -> "4" [] d = 5 -> "5" [] d = 6 -> "6" [] d = 7 -> "7"
      [] d = 8 -> "8" [] d = 9 -> "9"

RECURSIVE Dec(_)
\* The decimal string of a BigInt, as the index serialises it.
Dec(n) == IF n < 10 THEN Digit(n) ELSE Dec(n \div 10) \o Digit(n % 10)


\* The string of a BigDecimal of u hundredths, without trailing zeros.
BigDecimalStr(u) ==
    IF u % 100 = 0 THEN Dec(u \div 100)
    ELSE IF u % 10 = 0 THEN Dec(u \div 100) \o "." \o Digit((u \div 10) % 10)
    ELSE Dec(u \div 100) \o "." \o Digit((u \div 10) % 10) \o Digit(u % 10)

IntStrings == [n \in 0..MaxUnits |-> Dec(n)]
DecimalStrings == [u \in 0..MaxUnits |-> BigDecimalStr(u)]

\* parseInt(s) of a decimal digit string.
ParseInt(s) == CHOOSE n \in DOMAIN IntStrings : IntStrings[n] = s

\* toNumber: parseFloat(bigDecimalStr || '0'), in units of 0.01 ETH.
toNumber(bigDecimalStr) ==
    IF bigDecimalStr \in {Absent, ""} THEN 0
    ELSE CHOOSE u \in DOMAIN DecimalStrings : DecimalStrings[u] = bigDecimalStr

\* new Date(parseInt(timestamp) * 1000).toISOString(): the ISO string of an
\* instant, kept as the instant in milliseconds it denotes.
ToISOString(ms) == [iso |-> ms]

\* new Date(isoString), as the number a subtraction of two Dates uses.
DateValue(isoString) == isoString.iso

\* The folds below visit the positions lo..hi of a sequence from left to
\* right, as forEach and reduce do; the range is halved, and the value
\* accumulated so far is inspected before the descent, only to keep the
\* depth of the evaluation logarithmic.
Mid(lo, hi) == (lo + hi) \div 2

RECURSIVE SumRange(_, _, _, _)
SumRange(sum, ns, lo, hi) ==
    IF sum # sum \/ lo > hi THEN sum
    ELSE IF lo = hi THEN sum + ns[lo]
    ELSE SumRange(SumRange(sum, ns, lo, Mid(lo, hi)), ns, Mid(lo, hi) + 1, hi)

\* array.reduce((sum, x) => sum + f(x), 0)
SumOver(s, f(_)) == SumRange(0, [i \in DOMAIN s |-> f(s[i])], 1, Len(s))

\* array.slice(0, n) for n >= 0
Slice(s, n) == SubSeq(s, 1, IF n < Len(s) THEN n ELSE Len(s))

\* The position at which a stable ascending sort places an element of key k
\* in the sorted prefix of keys ks: behind every key that is not greater.
InsertPos(ks, k) ==
    IF \E i \in 1..Len(ks) : ks[i] > k
    THEN CHOOSE i \in 1..Len(ks) :
            /\ ks[i] > k
            /\ \A j \in 1..(i - 1) : ks[j] <= k
    ELSE Len(ks) + 1

\* The sorted order r of the positions before n, with n inserted.
InsertIndex(r, ks, n) ==
    LET p == InsertPos([i \in DOMAIN r |-> ks[r[i]]], ks[n])
    IN SubSeq(r, 1, p - 1) \o <<n>> \o SubSeq(r, p, Len(r))

RECURSIVE SortedIndices(_, _, _, _)
\* The order in which a stable sort, ascending in the keys ks, lists the
\* positions lo..hi after the positions already in r.
SortedIndices(r, ks, lo, hi) ==
    IF Len(r) < 0 \/ lo > hi THEN r
    ELSE IF lo = hi THEN InsertIndex(r, ks, lo)
    ELSE SortedIndices(SortedIndices(r, ks, lo, Mid(lo, hi)),
                       ks, Mid(lo, hi) + 1, hi)

\* Array.prototype.sort((a, b) => key(a) - key(b)): stable, ascending.
SortBy(s, key(_)) ==
    LET order == SortedIndices(<<>>, [i \in DOMAIN s |-> key(s[i])], 1, Len(s))
    IN [i \in DOMAIN s |-> s[order[i]]]

----------------------------------------------------------------------------
(* The subgraph *)

Outcomes == {"ok", "http_error", "network_error", "graphql_errors"}

\* querySubgraph throws on a rejected fetch, on !response.ok and on
\* data.errors, and returns data.data otherwise.
QueryThrows(outcome) == outcome # "ok"

TxHashes == {"0xa1", "0xb2"}
Buyers == {"0xc3", "0xd4"}
TradePrices == {1, 2}
Quantities == {2, 3}
Timestamps == {1, 2}

\* A purchase transfer as the index returns it; all transfers of one
\* transaction carry the timestamp of its block.
Transfer(tx, ts, price, qty, to) ==
    [txHash |-> tx, timestamp |-> Dec(ts),
     pricePerItemETH |-> BigDecimalStr(price), amount |-> Dec(qty),
     totalValueETH |-> BigDecimalStr(price * qty),
     transferredTo |-> [id |-> to]]

\* orderBy: timestamp, orderDirection: desc
NewestFirst(s) ==
    \A i \in 1..(Len(s) - 1) :
        ParseInt(s[i].timestamp) >= ParseInt(s[i + 1].timestamp)

\* The quantity of the i-th transfer of a list: 2 and 3 in turn.
QuantityAt(i) == IF i % 2 = 1 THEN 2 ELSE 3

\* The transfer lists the index can hold for one item.
TransferLists ==
    UNION { LET T == TxHashes \X TradePrices \X Buyers
                List(c) == [i \in DOMAIN c |->
                              Transfer(c[i][1], blockTime[c[i][1]], c[i][2],
                                       QuantityAt(i), c[i][3])]
            IN { s \in { List(c) : c \in UNION { [1..n -> T] :
                                                   n \in 0..MaxTransfers } } :
                   NewestFirst(s) }
          : blockTime \in { f \in [TxHashes -> Timestamps] :
                              f["0xa1"] = 2 } }

\* Transfer lists in which the newest h transfers share one grouping key and
\* the older ones, of another transaction, have a key each.
RepeatedList(h) ==
    [i \in 1..(h + MaxLimit + 1) |->
        IF i <= h
        THEN Transfer("0xa1", 2, 1, QuantityAt(i), "0xc3")
        ELSE Transfer("0xb2", 1, 1 + ((i - h) % 2), QuantityAt(i),
                      IF i - h <= 2 THEN "0xc3" ELSE "0xd4")]

RepeatedLists == { RepeatedList(h) : h \in (3 * MaxLimit - 1)..(3 * MaxLimit) }

----------------------------------------------------------------------------
(* Steps shared by the handlers *)

\* A variable not assigned yet, and the null of a JSON answer.
Unset == [unset |-> TRUE]
Null == [null |-> TRUE]

\* currentItem before an item is selected.
NoItem == "null"

\* What a function of the component sees of the state: the values of the
\* render it was created in.
Render(details, recent, index, item) ==
    [itemDetails |-> details, allRecentTrades |-> recent,
     tickerIndex |-> index, currentItem |-> item]

\* The first render: useState({}), useState([]), useState(0), useState(null)
FirstRender == Render({}, <<>>, 0, NoItem)

\* useState({ totalVolume: '-', itemsSold: '-', ... })
Placeholder ==
    [totalVolume |-> "-", itemsSold |-> "-", priceRange |-> "-",
     supply |-> "-", marketVolume |-> "-"]

\* No fetch has settled yet.
NoFetch == [route |-> "none", item |-> NoItem, id |-> 0, limit |-> Absent,
            outcome |-> "none"]

\* The state of the component at its first render, with no timer started
\* and no fetch issued.
\* sessionKey and sessionExpiry before a session is created: useState(null).
NoSession == "null"
NoExpiry == 0 - 1

\* The wallet panel after the first render: not connected, no session, no
\* message, nothing awaited.
WalletIdle ==
    /\ isConnected = FALSE
    /\ abstractClient = FALSE
    /\ sessionKey = NoSession
    /\ sessionExpiry = NoExpiry
    /\ loading = FALSE
    /\ message = ""
    /\ messageOp = 0
    /\ timeouts = {}
    /\ calls = {}
    /\ seconds = 0
    /\ started = 0

DashboardIdle ==
    /\ WalletIdle
    /\ now = 0
    /\ itemDetails = {}
    /\ marketData = [array |-> <<>>]
    /\ currentItem = NoItem
    /\ statsState = Placeholder
    /\ recentTrades = <<>>
    /\ orderBook = <<>>
    /\ allRecentTrades = <<>>
    /\ tickerIndex = 0
    /\ tickerRender = FirstRender
    /\ refreshElapsed = 0 /\ tickerElapsed = 0 /\ loadElapsed = 0
    /\ inflight = {}
    /\ issued = 0
    /\ completed = NoFetch
    /\ allTrades = <<>>
    /\ clicks = 0

\* The variables of a query that the index acts on; item is the position
\* of the item a per-item query of /api/stats is about, 0 otherwise.
Query(name, skipArg, firstArg) ==
    [q |-> name, skip |-> skipArg, first |-> firstArg, item |-> 0]

\* A per-item query of /api/stats, about allItems[i].
ItemQuery(name, i, firstArg) ==
    [q |-> name, skip |-> 0, first |-> firstArg, item |-> i]

\* What is kept of an upstream answer: the query and whether the upstream
\* request failed (no response, an HTTP status that is not ok, or a body
\* with GraphQL errors).
Answer(query, outcome) == [query |-> query, failed |-> outcome # "ok"]

\* await querySubgraph(query, variables): the request goes out.
Issue(query) ==
    /\ pending' = pending \cup {query}
    /\ sent' = Append(sent, query)
    /\ UNCHANGED answered

\* The answer to a query has arrived and no further query is issued.
Settle(query, outcome) ==
    /\ pending' = pending \ {query}
    /\ answered' = answered \cup {Answer(query, outcome)}
    /\ UNCHANGED sent

\* The answer to a query has arrived and the handler issues the next ones.
IssueAfter(query, outcome, next) ==
    /\ pending' = (pending \ {query}) \cup { next[i] : i \in DOMAIN next }
    /\ answered' = answered \cup {Answer(query, outcome)}
    /\ sent' = sent \o next

\* res.status(500).json({ error: message }) of a handler's catch block.
Fail(msg) == [status |-> 500, body |-> [error |-> msg]]

\* res.json(body)
Ok(body) == [status |-> 200, body |-> body]

RequestInit(route) ==
    /\ DashboardIdle
    /\ endpoint = route
    /\ pc = "start"
    /\ res = NoResponse
    /\ pending = {}
    /\ sent = <<>>
    /\ answered = {}

TradesIdle ==
    /\ limit = Absent
    /\ idxTransfers = <<>>
    /\ transfers = <<>>
    /\ groupedTrades = <<>>
    /\ trades = <<>>

LoopIdle ==
    /\ idxRows = <<>>
    /\ allRows = <<>>
    /\ skip = 0
    /\ hasMore = TRUE

OrderbookIdle ==
    /\ priceMap = <<>>
    /\ asks = <<>>

TimeframeIdle ==
    /\ timeframe = Absent
    /\ timestamp = Absent

ItemStatsIdle ==
    /\ idxItem = <<>>
    /\ itemData = Unset
    /\ transfersData = Unset

MarketIdle ==
    /\ volume24hTransfers = <<>>
    /\ volume48hTransfers = <<>>
    /\ volumeSkip = 0
    /\ volumeHasMore = TRUE
    /\ itemPc = <<>>
    /\ itemLocals = <<>>
    /\ stats = <<>>

BalanceIdle == idxPosition = Null

\* The answer to a query of a Promise.all that has already rejected: the
\* handler has answered, nothing awaits the query any more.
LateAnswer ==
    /\ pc = "done"
    /\ \E query \in pending, outcome \in Outcomes : Settle(query, outcome)
    /\ UNCHANGED <<endpoint, pc, res, tradesVars, loopVars, orderbookVars,
                   timeframeVars, itemStatsVars, marketVars, balanceVars>>
    /\ UNCHANGED clientVars

----------------------------------------------------------------------------
(* GET /api/trades/:itemId *)

DefaultLimit == 30

\* const { limit = 30 } = req.query; const tradeLimit = parseInt(limit);
tradeLimit == IF limit = Absent THEN DefaultLimit ELSE ParseInt(limit)

\* A bug the over-fetch property must catch: the query asks for tradeLimit
\* transfers.
transferLimitUnscaled == tradeLimit

\* { itemId, limit: tradeLimit * 3 }
transferLimit == tradeLimit * 3

\* A bug the grouping property must catch: the price left out of the key.
TradeKeyWithoutPrice(transfer) ==
    transfer.txHash \o "-" \o transfer.transferredTo.id

\* const key = `${txHash}-${transfer.pricePerItemETH}-${transfer.transferredTo.id}`
TradeKey(transfer) ==
    transfer.txHash \o "-" \o transfer.pricePerItemETH \o "-"
        \o transfer.transferredTo.id

\* A bug the partition property must catch: a later transfer of a key
\* replaces the trade's quantity instead of adding to it.
AddTransferOverwriting(map, transfer) ==
    LET key == TradeKey(transfer) IN
    IF \E i \in DOMAIN map : map[i].key = key
    THEN [i \in DOMAIN map |->
            IF map[i].key = key
            THEN [map[i] EXCEPT
                    !.value.amount = ParseInt(transfer.amount),
                    !.value.ethSpent = @ + toNumber(transfer.totalValueETH),
                    !.value.tradeCount = @ + 1]
            ELSE map[i]]
    ELSE Append(map, [key |-> key, value |->
            [tx |-> transfer.txHash,
             timestamp |-> ToISOString(ParseInt(transfer.timestamp) * 1000),
             price |-> toNumber(transfer.pricePerItemETH),
             amount |-> ParseInt(transfer.amount),
             ethSpent |-> toNumber(transfer.totalValueETH),
             buyer |-> transfer.transferredTo.id,
             tradeCount |-> 1]])

\* The body of transfers.forEach: the Map is a sequence of entries in
\* insertion order.
AddTransfer(map, transfer) ==
    LET key == TradeKey(transfer) IN
    IF \E i \in DOMAIN map : map[i].key = key
    THEN [i \in DOMAIN map |->
            IF map[i].key = key
            THEN [map[i] EXCEPT
                    !.value.amount = @ + ParseInt(transfer.amount),
                    !.value.ethSpent = @ + toNumber(transfer.totalValueETH),
                    !.value.tradeCount = @ + 1]
            ELSE map[i]]
    ELSE Append(map, [key |-> key, value |->
            [tx |-> transfer.txHash,
             timestamp |-> ToISOString(ParseInt(transfer.timestamp) * 1000),
             price |-> toNumber(transfer.pricePerItemETH),
             amount |-> ParseInt(transfer.amount),
             ethSpent |-> toNumber(transfer.totalValueETH),
             buyer |-> transfer.transferredTo.id,
             tradeCount |-> 1]])

RECURSIVE AddTransfers(_, _, _, _)
AddTransfers(map, ts, lo, hi) ==
    IF Len(map) < 0 \/ lo > hi THEN map
    ELSE IF lo = hi THEN AddTransfer(map, ts[lo])
    ELSE AddTransfers(AddTransfers(map, ts, lo, Mid(lo, hi)),
                      ts, Mid(lo, hi) + 1, hi)

\* transfers.forEach(...) over a new Map
GroupTransfers(ts) == AddTransfers(<<>>, ts, 1, Len(ts))

\* Array.from(map.values())
MapValues(map) == [i \in DOMAIN map |-> map[i].value]

\* A bug the ordering property must catch: the comparator's operands
\* swapped, which sorts the oldest trade first.
OldestFirstKey(trade) == DateValue(trade.timestamp)

\* (a, b) => new Date(b.timestamp) - new Date(a.timestamp), as a sort key
NewestFirstKey(trade) == 0 - DateValue(trade.timestamp)

\* Array.from(groupedTrades.values()).sort(...).slice(0, tradeLimit)
SortAndLimit(grouped, n) == Slice(SortBy(MapValues(grouped), NewestFirstKey), n)

InitTrades ==
    /\ RequestInit("trades")
    /\ limit \in {Absent} \cup { Dec(n) : n \in 0..MaxLimit }
    /\ idxTransfers \in TransferLists \cup RepeatedLists
    /\ transfers = <<>>
    /\ groupedTrades = <<>>
    /\ trades = <<>>
    /\ LoopIdle /\ OrderbookIdle /\ TimeframeIdle /\ ItemStatsIdle
    /\ MarketIdle /\ BalanceIdle

\* const data = await querySubgraph(query, { itemId, limit: tradeLimit * 3 })
TradesQuery ==
    /\ endpoint = "trades" /\ pc = "start"
    /\ Issue(Query("GetTrades", 0, transferLimit))
    /\ pc' = "await"
    /\ UNCHANGED <<endpoint, res, tradesVars, loopVars, orderbookVars,
                   timeframeVars, itemStatsVars, marketVars, balanceVars>>
    /\ UNCHANGED clientVars

\* The query is answered; the rest of the handler runs without an await.
TradesReply ==
    /\ endpoint = "trades" /\ pc = "await"
    /\ \E query \in pending, outcome \in Outcomes :
        /\ Settle(query, outcome)
        /\ IF QueryThrows(outcome)
           THEN /\ res' = Fail("Failed to fetch trades")
                /\ UNCHANGED <<transfers, groupedTrades, trades>>
           ELSE LET received == Slice(idxTransfers, query.first)
                    grouped == GroupTransfers(received)
                    result == SortAndLimit(grouped, tradeLimit)
                IN /\ transfers' = received
                   /\ groupedTrades' = grouped
                   /\ trades' = result
                   /\ res' = Ok(result)
    /\ pc' = "done"
    /\ UNCHANGED <<endpoint, limit, idxTransfers, loopVars, orderbookVars,
                   timeframeVars, itemStatsVars, marketVars, balanceVars>>
    /\ UNCHANGED clientVars

NextTrades == TradesQuery \/ TradesReply

SpecTrades == InitTrades /\ [][NextTrades]_vars

----------------------------------------------------------------------------
(* The paginated fetch loop of /api/chart-data, /api/stats, /api/orderbook *)
(* and /api/items                                                          *)

PageLimit == 1000

\* The rows the index returns for skip: $skip, first: $limit.
PageOf(rows, query) ==
    SubSeq(rows, query.skip + 1,
           IF query.skip + query.first < Len(rows)
           THEN query.skip + query.first ELSE Len(rows))

\* A bug the pagination properties must catch: the loop goes on only
\* while a page is longer than the page size, so it stops after one page.
MoreAfterStrict(page) == Len(page) > PageLimit

\* hasMore = transfers.length === limit
MoreAfter(page) == Len(page) = PageLimit

LoopInit ==
    /\ allRows = <<>>
    /\ skip = 0
    /\ hasMore = TRUE

\* The first pass of while (hasMore): the query of the first page goes out.
LoopStart(route, name) ==
    /\ endpoint = route /\ pc = "start"
    /\ hasMore
    /\ Issue(Query(name, skip, PageLimit))
    /\ pc' = "page"
    /\ UNCHANGED <<endpoint, res, loopVars>>

\* A bug the ordering properties must catch: the page is put in front of
\* the rows accumulated so far.
LoopPassPrepending(page) ==
    /\ allRows' = page \o allRows
    /\ hasMore' = MoreAfter(page)
    /\ skip' = skip + PageLimit
    /\ UNCHANGED idxRows

\* The rest of a pass after its await: the page is appended and hasMore and
\* skip are updated.
LoopPass(page) ==
    /\ allRows' = allRows \o page
    /\ hasMore' = MoreAfter(page)
    /\ skip' = skip + PageLimit
    /\ UNCHANGED idxRows

\* The query of the following pass, issued while hasMore.
NextQuery(query) == Query(query.q, skip + PageLimit, PageLimit)

\* The pass of a loop that is followed by another pass.
LoopAgain(query, outcome, page) ==
    /\ LoopPass(page)
    /\ IssueAfter(query, outcome, <<NextQuery(query)>>)
    /\ UNCHANGED <<pc, res>>

\* A bug the failure properties must catch: the catch block answers with
\* the rows of the earlier pages.
AbortWith(msg) == Ok(allRows)

\* The answer of the catch block of a handler.
AbortResponse(msg) == Fail(msg)

\* querySubgraph threw inside the loop: the handler's catch block answers.
LoopAbort(query, outcome, msg) ==
    /\ Settle(query, outcome)
    /\ res' = AbortResponse(msg)
    /\ pc' = "done"
    /\ UNCHANGED loopVars

----------------------------------------------------------------------------
(* GET /api/items *)

\* Every item of the index, ordered by id.
ItemRows == [i \in 1..(MaxItems + 1) |-> [id |-> Dec(i)]]

InitItems ==
    /\ RequestInit("items")
    /\ \E n \in 0..MaxItems : idxRows = SubSeq(ItemRows, 1, n)
    /\ LoopInit
    /\ TradesIdle /\ OrderbookIdle /\ TimeframeIdle /\ ItemStatsIdle
    /\ MarketIdle /\ BalanceIdle

ItemsStart ==
    /\ LoopStart("items", "GetAllItems")
    /\ UNCHANGED <<tradesVars, orderbookVars, timeframeVars, itemStatsVars,
                   marketVars, balanceVars>>
    /\ UNCHANGED clientVars

\* allItems = allItems.concat(items.map(item => item.id)); after the last
\* page, res.json(allItems).
ItemsReply ==
    /\ endpoint = "items" /\ pc = "page"
    /\ \E query \in pending, outcome \in Outcomes :
        IF QueryThrows(outcome)
        THEN LoopAbort(query, outcome, "Failed to fetch items")
        ELSE LET items == PageOf(idxRows, query)
                 ids == [i \in DOMAIN items |-> items[i].id]
             IN IF MoreAfter(ids)
                THEN LoopAgain(query, outcome, ids)
                ELSE /\ LoopPass(ids)
                     /\ Settle(query, outcome)
                     /\ pc' = "done"
                     /\ res' = Ok(allRows \o ids)
    /\ UNCHANGED <<endpoint, tradesVars, orderbookVars, timeframeVars,
                   itemStatsVars, marketVars, balanceVars>>
    /\ UNCHANGED clientVars

NextItems == ItemsStart \/ ItemsReply

SpecItems == InitItems /\ [][NextItems]_vars

----------------------------------------------------------------------------
(* GET /api/chart-data/:itemId *)

\* A transfer of the series, the i-th oldest of the item.
SeriesTransfer(i, price, qty) ==
    [id |-> Dec(i), timestamp |-> Dec(i),
     pricePerItemETH |-> BigDecimalStr(price), amount |-> Dec(qty),
     totalValueETH |-> BigDecimalStr(price * qty)]

\* The transfers of an item, oldest first: every series of at most
\* MaxWindow transfers, and series of about one page.
SeriesLists ==
    UNION { { [i \in 1..n |-> SeriesTransfer(i, prices[i], qty[i])] :
                prices \in [1..n -> TradePrices], qty \in [1..n -> Quantities] }
            : n \in 0..MaxWindow }
    \cup { [i \in 1..n |-> SeriesTransfer(i % 100, 1 + (i % 2), 1 + (i % 3))] :
             n \in (PageLimit - 1)..(PageLimit + 1) }

\* allTransfers.map(transfer => ({ ... }))
ChartPoint(transfer) ==
    [timestamp |-> ToISOString(ParseInt(transfer.timestamp) * 1000),
     price |-> toNumber(transfer.pricePerItemETH),
     volume |-> ParseInt(transfer.amount),
     ethVolume |-> toNumber(transfer.totalValueETH)]

InitChart ==
    /\ RequestInit("chart")
    /\ idxRows \in SeriesLists
    /\ LoopInit
    /\ TradesIdle /\ OrderbookIdle /\ TimeframeIdle /\ ItemStatsIdle
    /\ MarketIdle /\ BalanceIdle

ChartStart ==
    /\ LoopStart("chart", "GetTransfers")
    /\ UNCHANGED <<tradesVars, orderbookVars, timeframeVars, itemStatsVars,
                   marketVars, balanceVars>>
    /\ UNCHANGED clientVars

\* allTransfers = allTransfers.concat(transfers); after the last page the
\* transfers are converted to chart points and sent.
ChartReply ==
    /\ endpoint = "chart" /\ pc = "page"
    /\ \E query \in pending, outcome \in Outcomes :
        IF QueryThrows(outcome)
        THEN LoopAbort(query, outcome, "Failed to fetch chart data")
        ELSE LET page == PageOf(idxRows, query)
                 allTransfers == allRows \o page
             IN IF MoreAfter(page)
                THEN LoopAgain(query, outcome, page)
                ELSE /\ LoopPass(page)
                     /\ Settle(query, outcome)
                     /\ pc' = "done"
                     /\ res' = Ok([i \in DOMAIN allTransfers |->
                                     ChartPoint(allTransfers[i])])
    /\ UNCHANGED <<endpoint, tradesVars, orderbookVars, timeframeVars,
                   itemStatsVars, marketVars, balanceVars>>
    /\ UNCHANGED clientVars

NextChart == ChartStart \/ ChartReply

SpecChart == InitChart /\ [][NextChart]_vars

----------------------------------------------------------------------------
(* GET /api/orderbook/:itemId *)

MaxLevels == 100

BookPrices == {1, 2, 3}
BookQuantities == {1, 2}

\* An active listing as the index returns it.
Listing(id, price, remaining) ==
    [id |-> Dec(id), pricePerItemETH |-> BigDecimalStr(price),
     amountRemaining |-> Dec(remaining)]

\* orderBy: pricePerItemETH, orderDirection: asc
CheapestFirst(prices) ==
    \A i \in 1..(Len(prices) - 1) : prices[i] <= prices[i + 1]

\* Every order book of at most MaxListings listings.
SmallBooks ==
    UNION { { [i \in 1..n |-> Listing(i, prices[i], remaining[i])] :
                prices \in { f \in [1..n -> BookPrices] : CheapestFirst(f) },
                remaining \in [1..n -> BookQuantities] }
            : n \in 0..MaxListings }

\* An order book of n listings, perLevel of them at each price.
Book(n, perLevel) ==
    [i \in 1..n |-> Listing(i, (i + perLevel - 1) \div perLevel, (i % 3) + 1)]

\* Order books around the cut at MaxLevels price levels, and order books
\* of about one page.
LargeBooks ==
    { Book(n, perLevel) : n \in (MaxBook - 5)..MaxBook, perLevel \in 1..2 }
    \cup { Book(n, 10) : n \in (PageLimit - 1)..(PageLimit + 1) }

\* A bug the aggregation properties must catch: a listing at a price that
\* is already in the Map is counted but its quantity is not added.
AddListingNoAmount(map, listing) ==
    LET price == toNumber(listing.pricePerItemETH)
        amount == ParseInt(listing.amountRemaining)
    IN IF \E i \in DOMAIN map : map[i].key = price
       THEN [i \in DOMAIN map |->
               IF map[i].key = price
               THEN [map[i] EXCEPT !.value.orders = @ + 1]
               ELSE map[i]]
       ELSE Append(map, [key |-> price, value |->
               [price |-> price, amount |-> amount, orders |-> 1]])

\* The body of allListings.forEach
AddListing(map, listing) ==
    LET price == toNumber(listing.pricePerItemETH)
        amount == ParseInt(listing.amountRemaining)
    IN IF \E i \in DOMAIN map : map[i].key = price
       THEN [i \in DOMAIN map |->
               IF map[i].key = price
               THEN [map[i] EXCEPT !.value.amount = @ + amount,
                                   !.value.orders = @ + 1]
               ELSE map[i]]
       ELSE Append(map, [key |-> price, value |->
               [price |-> price, amount |-> amount, orders |-> 1]])

RECURSIVE AddListings(_, _, _, _)
AddListings(map, listings, lo, hi) ==
    IF Len(map) < 0 \/ lo > hi THEN map
    ELSE IF lo = hi THEN AddListing(map, listings[lo])
    ELSE AddListings(AddListings(map, listings, lo, Mid(lo, hi)),
                     listings, Mid(lo, hi) + 1, hi)

\* allListings.forEach(...) over a new Map
AggregateListings(listings) == AddListings(<<>>, listings, 1, Len(listings))

\* A bug the ordering property must catch: the comparator's operands
\* swapped, which puts the highest price first.
HighestFirstKey(level) == 0 - level.price

\* (a, b) => a.price - b.price, as a sort key
LowestFirstKey(level) == level.price

\* Array.from(priceMap.values()).sort(...).slice(0, 100)
TopLevels(map) == Slice(SortBy(MapValues(map), LowestFirstKey), MaxLevels)

InitOrderbook ==
    /\ RequestInit("orderbook")
    /\ idxRows \in SmallBooks \cup LargeBooks
    /\ LoopInit
    /\ OrderbookIdle
    /\ TradesIdle /\ TimeframeIdle /\ ItemStatsIdle /\ MarketIdle
    /\ BalanceIdle

OrderbookStart ==
    /\ LoopStart("orderbook", "GetOrderbook")
    /\ UNCHANGED <<tradesVars, orderbookVars, timeframeVars, itemStatsVars,
                   marketVars, balanceVars>>
    /\ UNCHANGED clientVars

\* allListings = allListings.concat(listings); after the last page the
\* listings are aggregated by price, sorted and cut, and the answer is sent.
OrderbookReply ==
    /\ endpoint = "orderbook" /\ pc = "page"
    /\ \E query \in pending, outcome \in Outcomes :
        IF QueryThrows(outcome)
        THEN /\ LoopAbort(query, outcome, "Failed to fetch orderbook")
             /\ UNCHANGED orderbookVars
        ELSE LET listings == PageOf(idxRows, query)
                 allListings == allRows \o listings
             IN IF MoreAfter(listings)
                THEN /\ LoopAgain(query, outcome, listings)
                     /\ UNCHANGED orderbookVars
                ELSE /\ LoopPass(listings)
                     /\ Settle(query, outcome)
                     /\ pc' = "done"
                     /\ IF Len(allListings) = 0
                        THEN /\ res' = Ok([asks |-> <<>>])
                             /\ UNCHANGED orderbookVars
                        ELSE /\ priceMap' = AggregateListings(allListings)
                             /\ asks' = TopLevels(priceMap')
                             /\ res' = Ok([asks |-> asks'])
    /\ UNCHANGED <<endpoint, tradesVars, timeframeVars, itemStatsVars,
                   marketVars, balanceVars>>
    /\ UNCHANGED clientVars

NextOrderbook == OrderbookStart \/ OrderbookReply

SpecOrderbook == InitOrderbook /\ [][NextOrderbook]_vars

\* The order books of an index that changes while a request is served: n
\* listings, a hundred at each price from 0.02 ETH upwards.
LiveBook(n) == [i \in 1..n |-> Listing(i, 2 + ((i - 1) \div 100), 1)]

LiveBooks ==
    { LiveBook(n) : n \in {1, 2, PageLimit - 1, PageLimit, PageLimit + 1,
                           PageLimit + 2, 2 * PageLimit + 1} }

\* A listing created while the request is served, cheaper than every other.
NewListing(k) ==
    [id |-> "new" \o Dec(k), pricePerItemETH |-> BigDecimalStr(1),
     amountRemaining |-> Dec(1)]

NewListings == { NewListing(k) : k \in 1..MaxNewListings }

\* The listings created since the request began; they lead the index.
Created ==
    { i \in DOMAIN idxRows : i <= MaxNewListings /\ idxRows[i] \in NewListings }

InitOrderbookLive ==
    /\ RequestInit("orderbook")
    /\ idxRows \in LiveBooks
    /\ LoopInit
    /\ OrderbookIdle
    /\ TradesIdle /\ TimeframeIdle /\ ItemStatsIdle /\ MarketIdle
    /\ BalanceIdle

\* The index while a page request is outstanding.  where: { isActive: true,
\* amountRemaining_gt: "0" } with skip and first is evaluated against the
\* listings active when the request arrives: a purchase that fills the
\* cheapest listing takes it out of the result, a new listing at a lower
\* price enters it in front.
ListingChanges ==
    /\ endpoint = "orderbook" /\ pc = "page"
    /\ \/ /\ idxRows # <<>>
          /\ idxRows[1].id \in { Dec(k) : k \in 1..MaxFills }
          /\ idxRows' = Tail(idxRows)
       \/ /\ Cardinality(Created) < MaxNewListings
          /\ idxRows' = <<NewListing(Cardinality(Created) + 1)>> \o idxRows
    /\ UNCHANGED <<requestVars, tradesVars, allRows, skip, hasMore,
                   orderbookVars, timeframeVars, itemStatsVars, marketVars,
                   balanceVars>>
    /\ UNCHANGED clientVars

NextOrderbookLive == NextOrderbook \/ ListingChanges

SpecOrderbookLive == InitOrderbookLive /\ [][NextOrderbookLive]_vars

----------------------------------------------------------------------------
(* The 24h statistics of /api/stats/:itemId and /api/stats *)

WindowLimit == 1000

\* A number that the code computes by a division: the exact quotient
\* num / den, kept unreduced; den = 0 is a division by zero.
Zero == [num |-> 0, den |-> 1]

\* (diff / base) * 100
PercentOf(diff, base) == [num |-> diff * 100, den |-> base]

\* A bug the percentage properties must catch: no test of the baseline.
PercentChangeUnguarded(current, previous) ==
    PercentOf(current - previous, previous)

\* previous > 0 ? ((current - previous) / previous) * 100 : 0
PercentChange(current, previous) ==
    IF previous > 0 THEN PercentOf(current - previous, previous) ELSE Zero

\* let priceChange24h = 0; if (transfers24h.length > 1) { ... }
PriceChange(transfers24h) ==
    IF Len(transfers24h) > 1
    THEN LET firstPrice == toNumber(transfers24h[1].pricePerItemETH)
             lastPrice ==
                 toNumber(transfers24h[Len(transfers24h)].pricePerItemETH)
         IN IF firstPrice > 0
            THEN PercentOf(lastPrice - firstPrice, firstPrice)
            ELSE Zero
    ELSE Zero

\* transfers.reduce((sum, t) => sum + toNumber(t.totalValueETH), 0)
Volume(ts) == SumOver(ts, LAMBDA t : toNumber(t.totalValueETH))

\* transfers.reduce((sum, t) => sum + parseInt(t.amount), 0)
ItemsSold(ts) == SumOver(ts, LAMBDA t : ParseInt(t.amount))

\* transfers24h.length > 0 ? toNumber(transfers24h[0].pricePerItemETH) : 0
Price24hAgo(transfers24h) ==
    IF Len(transfers24h) > 0
    THEN toNumber(transfers24h[1].pricePerItemETH) ELSE 0

\* A transfer of a 24h window, the i-th oldest of the window.
WindowTransfer(i, price, qty) ==
    [timestamp |-> Dec(i), pricePerItemETH |-> BigDecimalStr(price),
     amount |-> Dec(qty), totalValueETH |-> BigDecimalStr(price * qty)]

\* Every window of at most MaxWindow transfers at the given prices.
Windows(prices) ==
    UNION { { [i \in 1..n |-> WindowTransfer(i, p[i], QuantityAt(i))] :
                p \in [1..n -> prices] }
            : n \in 0..MaxWindow }

\* A window of n transfers, about one page.
LargeWindow(n) == [i \in 1..n |-> WindowTransfer(i, 1 + (i % 2), 1)]

LargeWindows == { LargeWindow(n) : n \in (PageLimit - 1)..(PageLimit + 1) }

\* An item of the index.
ItemRow(i) ==
    [id |-> Dec(i), totalTrades |-> Dec(7), currentPriceETH |-> "0.02",
     lastTradeTimestamp |-> Dec(2)]

\* What the index holds about one item: the item, its purchase transfers
\* of the last 24h and of the 24h before, oldest first, and its cheapest
\* active listing.
ItemEntry(row, t24, t48, floor) ==
    [item |-> row, t24 |-> t24, t48 |-> t48, floor |-> floor]

----------------------------------------------------------------------------
(* GET /api/stats/:itemId *)

\* req.params.itemId
itemId == Dec(1)

StatPrices == {0, 1, 2}
PreviousPrices == {0, 1}

\* transfers24h.map(t => toNumber(t.pricePerItemETH)).filter(p => p > 0)
PositivePrices(transfers24h) ==
    { toNumber(transfers24h[i].pricePerItemETH) : i \in DOMAIN transfers24h }
        \ {0}

\* prices.length > 0 ? Math.min(...prices) : toNumber(item.currentPriceETH)
MinPrice(item, transfers24h) ==
    LET prices == PositivePrices(transfers24h)
    IN IF prices # {} THEN CHOOSE p \in prices : \A q \in prices : p <= q
       ELSE toNumber(item.currentPriceETH)

\* prices.length > 0 ? Math.max(...prices) : toNumber(item.currentPriceETH)
MaxPrice(item, transfers24h) ==
    LET prices == PositivePrices(transfers24h)
    IN IF prices # {} THEN CHOOSE p \in prices : \A q \in prices : p >= q
       ELSE toNumber(item.currentPriceETH)

\* const result = { ... }
ItemStatsResult(item, transfers24h, transfers48h) ==
    [itemId |-> itemId,
     tradeCount |-> ParseInt(item.totalTrades),
     totalItemsSold24h |-> ItemsSold(transfers24h),
     totalEthVolume24h |-> Volume(transfers24h),
     avgPrice |-> toNumber(item.currentPriceETH),
     minPrice |-> MinPrice(item, transfers24h),
     maxPrice |-> MaxPrice(item, transfers24h),
     currentPrice |-> toNumber(item.currentPriceETH),
     price24hAgo |-> Price24hAgo(transfers24h),
     priceChange24h |-> PriceChange(transfers24h),
     volumeChange24h |->
         PercentChange(Volume(transfers24h), Volume(transfers48h)),
     itemsSoldChange24h |->
         PercentChange(ItemsSold(transfers24h), ItemsSold(transfers48h)),
     lastTrade |-> ToISOString(ParseInt(item.lastTradeTimestamp) * 1000)]

InitItemStats ==
    /\ RequestInit("itemStats")
    /\ \/ idxItem = <<ItemEntry(Null, <<>>, <<>>, <<>>)>>
       \/ \E t24 \in Windows(StatPrices), t48 \in Windows(PreviousPrices) :
            idxItem = <<ItemEntry(ItemRow(1), t24, t48, <<>>)>>
       \/ \E t24 \in LargeWindows :
            idxItem = <<ItemEntry(ItemRow(1), t24, <<>>, <<>>)>>
    /\ itemData = Unset
    /\ transfersData = Unset
    /\ TradesIdle /\ LoopIdle /\ OrderbookIdle /\ TimeframeIdle
    /\ MarketIdle /\ BalanceIdle

\* await Promise.all([querySubgraph(itemQuery, ...),
\*                    querySubgraph(transfersQuery, ...)])
ItemStatsStart ==
    /\ endpoint = "itemStats" /\ pc = "start"
    /\ pending' = {Query("GetItem", 0, 1),
                   Query("Get24hTransfers", 0, WindowLimit)}
    /\ sent' = <<Query("GetItem", 0, 1),
                 Query("Get24hTransfers", 0, WindowLimit)>>
    /\ pc' = "both"
    /\ UNCHANGED <<endpoint, res, answered, tradesVars, loopVars,
                   orderbookVars, timeframeVars, itemStatsVars, marketVars,
                   balanceVars>>
    /\ UNCHANGED clientVars

\* One of the two queries is answered.  A failure rejects the Promise.all
\* at once; when both have succeeded the handler goes on: an unknown item
\* is answered with null, otherwise the query of the previous window goes
\* out.
ItemStatsBoth ==
    /\ endpoint = "itemStats" /\ pc = "both"
    /\ \E query \in pending, outcome \in Outcomes :
        IF QueryThrows(outcome)
        THEN /\ Settle(query, outcome)
             /\ res' = Fail("Failed to fetch item stats")
             /\ pc' = "done"
             /\ UNCHANGED <<itemData, transfersData>>
        ELSE LET item == IF query.q = "GetItem"
                         THEN [item |-> idxItem[1].item] ELSE itemData
                 t24 == IF query.q = "Get24hTransfers"
                        THEN [transfers |-> Slice(idxItem[1].t24, query.first)]
                        ELSE transfersData
             IN /\ itemData' = item
                /\ transfersData' = t24
                /\ IF item = Unset \/ t24 = Unset
                   THEN /\ Settle(query, outcome)
                        /\ UNCHANGED <<pc, res>>
                   ELSE IF item.item = Null
                   THEN /\ Settle(query, outcome)
                        /\ res' = Ok(Null)
                        /\ pc' = "done"
                   ELSE /\ IssueAfter(query, outcome,
                               <<Query("Get48hTransfers", 0, WindowLimit)>>)
                        /\ pc' = "previous"
                        /\ UNCHANGED res
    /\ UNCHANGED <<endpoint, idxItem, tradesVars, loopVars, orderbookVars,
                   timeframeVars, marketVars, balanceVars>>
    /\ UNCHANGED clientVars

\* The query of the previous window is answered and the result is sent.
ItemStatsPrevious ==
    /\ endpoint = "itemStats" /\ pc = "previous"
    /\ \E query \in pending, outcome \in Outcomes :
        /\ Settle(query, outcome)
        /\ IF QueryThrows(outcome)
           THEN res' = Fail("Failed to fetch item stats")
           ELSE res' = Ok(ItemStatsResult(itemData.item,
                             transfersData.transfers,
                             Slice(idxItem[1].t48, query.first)))
    /\ pc' = "done"
    /\ UNCHANGED <<endpoint, tradesVars, loopVars, orderbookVars,
                   timeframeVars, itemStatsVars, marketVars, balanceVars>>
    /\ UNCHANGED clientVars

NextItemStats ==
    ItemStatsStart \/ ItemStatsBoth \/ ItemStatsPrevious \/ LateAnswer

SpecItemStats == InitItemStats /\ [][NextItemStats]_vars

----------------------------------------------------------------------------
(* GET /api/stats *)

\* What the index can hold about an item served by /api/stats.
StatProfiles ==
    { [t24 |-> <<WindowTransfer(1, 1, 2)>>, t48 |-> <<>>,
       floor |-> <<Listing(1, 2, 1)>>],
      [t24 |-> <<WindowTransfer(1, 1, 2), WindowTransfer(2, 2, 1)>>,
       t48 |-> <<WindowTransfer(1, 1, 1)>>, floor |-> <<Listing(1, 3, 1)>>],
      [t24 |-> <<WindowTransfer(1, 0, 1), WindowTransfer(2, 2, 2)>>,
       t48 |-> <<WindowTransfer(1, 0, 2)>>, floor |-> <<>>] }

\* const batchSize = 10
batchSize == 10

\* What the index holds about each item of a list longer than one batch.
BatchProfile ==
    [t24 |-> <<WindowTransfer(1, 1, 2)>>, t48 |-> <<>>, floor |-> <<>>]

RECURSIVE WindowsOfAll(_, _)
\* The transfers of a window (t24 or t48) of every item of the index.
WindowsOfAll(entries, window) ==
    IF entries = <<>> THEN <<>>
    ELSE WindowsOfAll(SubSeq(entries, 1, Len(entries) - 1), window)
           \o entries[Len(entries)][window]

\* The rows of the index that match the market-wide queries.
MarketRows(name) ==
    IF name = "GetMarketVolume24h" THEN WindowsOfAll(idxItem, "t24")
    ELSE WindowsOfAll(idxItem, "t48")

\* marketVolumeChange
marketVolumeChange ==
    PercentChange(Volume(volume24hTransfers), Volume(volume48hTransfers))

\* The record an item's callback returns.  totalMarketVolume24h is the
\* volume24h in scope in the callback, which is the item's own.
ItemRecord(item, transfers24h, transfers48h, listings) ==
    [itemId |-> item.id,
     tradeCount |-> ParseInt(item.totalTrades),
     totalItemsSold24h |-> ItemsSold(transfers24h),
     totalEthVolume24h |-> Volume(transfers24h),
     avgPrice |-> toNumber(item.currentPriceETH),
     minPrice |-> toNumber(item.currentPriceETH),
     maxPrice |-> toNumber(item.currentPriceETH),
     currentPrice |-> toNumber(item.currentPriceETH),
     floorPrice |-> IF Len(listings) > 0
                    THEN toNumber(listings[1].pricePerItemETH) ELSE 0,
     price24hAgo |-> Price24hAgo(transfers24h),
     priceChange24h |-> PriceChange(transfers24h),
     volumeChange24h |->
         PercentChange(Volume(transfers24h), Volume(transfers48h)),
     lastTrade |-> ToISOString(ParseInt(item.lastTradeTimestamp) * 1000),
     marketVolumeChange24h |-> marketVolumeChange,
     totalMarketVolume24h |-> Volume(transfers24h)]

\* A bug the error properties must catch: the callback's catch block
\* returns nothing.
NoRecord(item) == Unset

\* The record an item's callback returns from its catch block.
ZeroRecord(item) ==
    [itemId |-> item.id, tradeCount |-> 0, totalItemsSold24h |-> 0,
     totalEthVolume24h |-> 0, avgPrice |-> 0, minPrice |-> 0, maxPrice |-> 0,
     currentPrice |-> 0, floorPrice |-> 0, price24hAgo |-> 0,
     priceChange24h |-> Zero, lastTrade |-> Null,
     marketVolumeChange24h |-> Zero]

InitMarket ==
    /\ RequestInit("stats")
    /\ \/ \E k \in 0..MaxStatItems : \E profile \in [1..k -> StatProfiles] :
            idxItem = [i \in 1..k |->
                         ItemEntry(ItemRow(i), profile[i].t24, profile[i].t48,
                                   profile[i].floor)]
       \/ \E t24 \in LargeWindows :
            idxItem = <<ItemEntry(ItemRow(1), t24, <<>>, <<>>)>>
       \/ \E k \in (batchSize + 1)..MaxBatchItems :
            idxItem = [i \in 1..k |->
                         ItemEntry(ItemRow(i), BatchProfile.t24,
                                   BatchProfile.t48, BatchProfile.floor)]
    /\ idxRows = [i \in DOMAIN idxItem |-> idxItem[i].item]
    /\ LoopInit
    /\ MarketIdle
    /\ itemData = Unset /\ transfersData = Unset
    /\ TradesIdle /\ OrderbookIdle /\ TimeframeIdle /\ BalanceIdle

MarketStart ==
    /\ LoopStart("stats", "GetItems")
    /\ UNCHANGED <<tradesVars, orderbookVars, timeframeVars, itemStatsVars,
                   marketVars, balanceVars>>
    /\ UNCHANGED clientVars

\* allItems = allItems.concat(items); after the last page the first query
\* of the 24h volume loop goes out.
MarketItems ==
    /\ endpoint = "stats" /\ pc = "page"
    /\ \E query \in pending, outcome \in Outcomes :
        IF QueryThrows(outcome)
        THEN LoopAbort(query, outcome, "Failed to fetch market stats")
        ELSE LET items == PageOf(idxRows, query)
             IN IF MoreAfter(items)
                THEN LoopAgain(query, outcome, items)
                ELSE /\ LoopPass(items)
                     /\ IssueAfter(query, outcome,
                          <<Query("GetMarketVolume24h", volumeSkip, PageLimit)>>)
                     /\ pc' = "volume24h"
                     /\ UNCHANGED res
    /\ UNCHANGED <<endpoint, tradesVars, orderbookVars, timeframeVars,
                   itemStatsVars, marketVars, balanceVars>>
    /\ UNCHANGED clientVars

\* volume24hTransfers = volume24hTransfers.concat(transfers); after the
\* last page volumeSkip and volumeHasMore are reset and the first query of
\* the 48h volume loop goes out.
MarketVolume24h ==
    /\ endpoint = "stats" /\ pc = "volume24h"
    /\ \E query \in pending, outcome \in Outcomes :
        IF QueryThrows(outcome)
        THEN /\ Settle(query, outcome)
             /\ res' = AbortResponse("Failed to fetch market stats")
             /\ pc' = "done"
             /\ UNCHANGED <<volume24hTransfers, volumeSkip, volumeHasMore>>
        ELSE LET page == PageOf(MarketRows(query.q), query)
             IN /\ volume24hTransfers' = volume24hTransfers \o page
                /\ res' = res
                /\ IF MoreAfter(page)
                   THEN /\ volumeHasMore' = TRUE
                        /\ volumeSkip' = volumeSkip + PageLimit
                        /\ IssueAfter(query, outcome,
                             <<Query(query.q, volumeSkip + PageLimit,
                                     PageLimit)>>)
                        /\ pc' = pc
                   ELSE /\ volumeHasMore' = TRUE
                        /\ volumeSkip' = 0
                        /\ IssueAfter(query, outcome,
                             <<Query("GetMarketVolume48h", 0, PageLimit)>>)
                        /\ pc' = "volume48h"
    /\ UNCHANGED <<endpoint, tradesVars, loopVars, orderbookVars,
                   timeframeVars, itemStatsVars, volume48hTransfers, itemPc,
                   itemLocals, stats, balanceVars>>
    /\ UNCHANGED clientVars

\* The first query of every item's callback: the batches are created one
\* after the other without an await between them.
FirstQueries == [i \in DOMAIN allRows |->
                   ItemQuery("Get24hTransfers", i, WindowLimit)]

\* volume48hTransfers = volume48hTransfers.concat(transfers); after the last
\* page the callbacks of all items start, and with no item the handler
\* answers at once.
MarketVolume48h ==
    /\ endpoint = "stats" /\ pc = "volume48h"
    /\ \E query \in pending, outcome \in Outcomes :
        IF QueryThrows(outcome)
        THEN /\ Settle(query, outcome)
             /\ res' = AbortResponse("Failed to fetch market stats")
             /\ pc' = "done"
             /\ UNCHANGED <<volume48hTransfers, volumeSkip, volumeHasMore,
                            itemPc, itemLocals, stats>>
        ELSE LET page == PageOf(MarketRows(query.q), query)
             IN /\ volume48hTransfers' = volume48hTransfers \o page
                /\ volumeSkip' = volumeSkip + PageLimit
                /\ IF MoreAfter(page)
                   THEN /\ volumeHasMore' = TRUE
                        /\ IssueAfter(query, outcome,
                             <<Query(query.q, volumeSkip + PageLimit,
                                     PageLimit)>>)
                        /\ UNCHANGED <<pc, res, itemPc, itemLocals, stats>>
                   ELSE /\ volumeHasMore' = FALSE
                        /\ IssueAfter(query, outcome, FirstQueries)
                        /\ itemPc' = [i \in DOMAIN allRows |-> "transfers24h"]
                        /\ itemLocals' = [i \in DOMAIN allRows |-> Unset]
                        /\ stats' = [i \in DOMAIN allRows |-> Unset]
                        /\ IF allRows = <<>>
                           THEN res' = Ok(<<>>) /\ pc' = "done"
                           ELSE res' = res /\ pc' = "items"
    /\ UNCHANGED <<endpoint, tradesVars, loopVars, orderbookVars,
                   timeframeVars, itemStatsVars, volume24hTransfers,
                   balanceVars>>
    /\ UNCHANGED clientVars

\* A bug the order properties must catch: the catch block encloses the batch
\* and zeroes the record of every item.
CatchBatchError(results, i, item) ==
    [j \in DOMAIN results |-> ZeroRecord(allRows[j])]

\* } catch (error) { return {...} } of the callback of item i: the zeroed
\* record takes the place of the record of item i and of no other.
CatchItemError(results, i, item) == [results EXCEPT ![i] = ZeroRecord(item)]

\* The answers explored for the per-item queries: with more items than one
\* batch the index is taken to be failing, so that every callback ends at
\* its first answer.
ItemOutcomes ==
    IF Len(allRows) > batchSize THEN Outcomes \ {"ok"} ELSE Outcomes

\* One step of the callback of item i: the answer to its pending query.  An
\* error is caught in the callback, which returns the zeroed record.  When
\* the last callback has returned the handler answers with all records.
MarketItem ==
    /\ endpoint = "stats" /\ pc = "items"
    /\ \E query \in pending, outcome \in ItemOutcomes :
        LET i == query.item
            item == allRows[i]
            rows == idxItem[i]
        IN /\ IF QueryThrows(outcome)
              THEN /\ Settle(query, outcome)
                   /\ stats' = CatchItemError(stats, i, item)
                   /\ itemPc' = [itemPc EXCEPT ![i] = "done"]
                   /\ UNCHANGED itemLocals
              ELSE CASE itemPc[i] = "transfers24h" ->
                        /\ itemLocals' = [itemLocals EXCEPT ![i] =
                             [transfers24h |-> Slice(rows.t24, query.first)]]
                        /\ itemPc' = [itemPc EXCEPT ![i] = "transfers48h"]
                        /\ IssueAfter(query, outcome,
                             <<ItemQuery("Get48hTransfers", i, WindowLimit)>>)
                        /\ UNCHANGED stats
                     [] itemPc[i] = "transfers48h" ->
                        /\ itemLocals' = [itemLocals EXCEPT ![i] =
                             [transfers24h |-> itemLocals[i].transfers24h,
                              transfers48h |-> Slice(rows.t48, query.first)]]
                        /\ itemPc' = [itemPc EXCEPT ![i] = "floorPrice"]
                        /\ IssueAfter(query, outcome,
                             <<ItemQuery("GetFloorPrice", i, 1)>>)
                        /\ UNCHANGED stats
                     [] itemPc[i] = "floorPrice" ->
                        /\ stats' = [stats EXCEPT ![i] =
                             ItemRecord(item, itemLocals[i].transfers24h,
                                        itemLocals[i].transfers48h,
                                        Slice(rows.floor, query.first))]
                        /\ itemPc' = [itemPc EXCEPT ![i] = "done"]
                        /\ Settle(query, outcome)
                        /\ UNCHANGED itemLocals
           /\ IF \A j \in DOMAIN itemPc' : itemPc'[j] = "done"
              THEN res' = Ok(stats') /\ pc' = "done"
              ELSE UNCHANGED <<pc, res>>
    /\ UNCHANGED <<endpoint, tradesVars, loopVars, orderbookVars,
                   timeframeVars, itemStatsVars, volume24hTransfers,
                   volume48hTransfers, volumeSkip, volumeHasMore, balanceVars>>
    /\ UNCHANGED clientVars

NextMarket ==
    \/ MarketStart
    \/ MarketItems
    \/ MarketVolume24h
    \/ MarketVolume48h
    \/ MarketItem

SpecMarket == InitMarket /\ [][NextMarket]_vars

----------------------------------------------------------------------------
(* GET /api/timeframe-data/:itemId *)

\* The result of arithmetic on undefined or on a string that is no number.
NaN == [nan |-> TRUE]

TimeValues == {0, 3599, 3600, 14400, 86399, 86400}

\* req.query.timestamp when it is given and not empty.
TimestampStrings == { Dec(t) : t \in TimeValues } \cup {"abc"}

Timeframes == {Absent, "1h", "4h", "1d", "1w"}

\* A bug the input properties must catch: the timestamp is not tested.
TimestampUnchecked(ts) == FALSE

\* !timestamp
TimestampMissing(ts) == ts = Absent \/ ts = ""

\* Whether the division converts the string to a number and not to NaN.
IsNumeric(ts) == \E t \in TimeValues : Dec(t) = ts

\* The conversion of a numeric string by the arithmetic.
NumberOf(ts) == CHOOSE t \in TimeValues : Dec(t) = ts

\* const { timeframe = '1d' } = req.query
timeframeOrDefault == IF timeframe = Absent THEN "1d" ELSE timeframe

\* const intervals = { '1h': 3600, '4h': 14400, '1d': 86400 }
intervals == [h1 \in {"1h"} |-> 3600] @@ [h4 \in {"4h"} |-> 14400]
                 @@ [d1 \in {"1d"} |-> 86400]

\* Math.floor(timestamp / intervalSeconds) * intervalSeconds is NaN when
\* intervals[timeframe] is undefined or the timestamp is no number.
StartIsNaN ==
    timeframeOrDefault \notin DOMAIN intervals \/ ~IsNumeric(timestamp)

\* const intervalSeconds = intervals[timeframe]
intervalSeconds == intervals[timeframeOrDefault]

\* Math.floor(timestamp / intervalSeconds) * intervalSeconds
startTime ==
    IF StartIsNaN THEN NaN
    ELSE (NumberOf(timestamp) \div intervalSeconds) * intervalSeconds

\* startTime + intervalSeconds
endTime == IF StartIsNaN THEN NaN ELSE startTime + intervalSeconds

\* A purchase transfer of the item at time t.
FrameTransfer(t, qty) ==
    [timestamp |-> Dec(t), amount |-> Dec(qty),
     totalValueETH |-> BigDecimalStr(qty)]

FrameLists ==
    UNION { { [i \in 1..n |-> FrameTransfer(t[i], QuantityAt(i))] :
                t \in [1..n -> TimeValues] }
            : n \in 0..MaxFrameRows }

\* About one page of transfers of the item, all of the hour that starts at
\* 3600.
LargeFrames ==
    { [i \in 1..n |-> FrameTransfer(3600, 1)] :
        n \in (PageLimit - 1)..(PageLimit + 1) }

\* where: { timestamp_gte: $startTime, timestamp_lt: $endTime }
InFrame(t) ==
    /\ NumberOf(t.timestamp) >= startTime
    /\ NumberOf(t.timestamp) < endTime

\* The answers the index can give: "NaN" is no BigInt.
FrameOutcomes == IF StartIsNaN THEN Outcomes \ {"ok"} ELSE Outcomes

InitTimeframe ==
    /\ RequestInit("timeframe")
    /\ timeframe \in Timeframes
    /\ timestamp \in {Absent, ""} \cup TimestampStrings
    /\ idxTransfers \in FrameLists \cup LargeFrames
    /\ limit = Absent /\ transfers = <<>>
    /\ groupedTrades = <<>> /\ trades = <<>>
    /\ LoopIdle /\ OrderbookIdle /\ ItemStatsIdle /\ MarketIdle /\ BalanceIdle

\* if (!timestamp) return res.status(400)...; otherwise the query goes out.
TimeframeStart ==
    /\ endpoint = "timeframe" /\ pc = "start"
    /\ IF TimestampMissing(timestamp)
       THEN /\ res' = [status |-> 400, body |-> [error |-> "Timestamp required"]]
            /\ pc' = "done"
            /\ UNCHANGED <<pending, sent, answered>>
       ELSE /\ Issue(Query("GetTimeframeData", 0, WindowLimit))
            /\ pc' = "frame"
            /\ UNCHANGED res
    /\ UNCHANGED <<endpoint, tradesVars, loopVars, orderbookVars,
                   timeframeVars, itemStatsVars, marketVars, balanceVars>>
    /\ UNCHANGED clientVars

\* The query is answered; the rest of the handler runs without an await.
TimeframeReply ==
    /\ endpoint = "timeframe" /\ pc = "frame"
    /\ \E query \in pending, outcome \in FrameOutcomes :
        /\ Settle(query, outcome)
        /\ IF QueryThrows(outcome)
           THEN /\ res' = Fail("Failed to fetch timeframe data")
                /\ UNCHANGED transfers
           ELSE LET rows == Slice(SelectSeq(idxTransfers, InFrame),
                                  query.first)
                IN /\ transfers' = rows
                   /\ res' = Ok([itemId |-> itemId,
                                 timeframe |-> timeframeOrDefault,
                                 startTime |-> startTime,
                                 endTime |-> endTime,
                                 totalItemsSold |-> ItemsSold(rows),
                                 totalEthVolume |-> Volume(rows)])
    /\ pc' = "done"
    /\ UNCHANGED <<endpoint, limit, idxTransfers, groupedTrades, trades,
                   loopVars, orderbookVars, timeframeVars, itemStatsVars,
                   marketVars, balanceVars>>
    /\ UNCHANGED clientVars

NextTimeframe == TimeframeStart \/ TimeframeReply

SpecTimeframe == InitTimeframe /\ [][NextTimeframe]_vars

----------------------------------------------------------------------------
(* GET /api/balance/:userAddress/:itemId *)

Balances == {0, 1, 2}

\* A userItemPosition of the index.
Position(balance) ==
    [currentBalance |-> Dec(balance), totalPurchased |-> Dec(balance + 1),
     totalSold |-> Dec(1), avgPurchasePriceETH |-> BigDecimalStr(2),
     totalSpentETH |-> BigDecimalStr(2 * (balance + 1)),
     totalEarnedETH |-> BigDecimalStr(3)]

\* A bug the lookup properties must catch: null is sent for no position.
NullPosition == Null

\* The body sent when the user has no position.
NoPosition ==
    [balance |-> 0, totalPurchased |-> 0, totalSold |-> 0,
     avgPurchasePrice |-> 0, totalSpent |-> 0, totalEarned |-> 0]

\* The body sent for a position.
BalanceOf(position) ==
    [balance |-> ParseInt(position.currentBalance),
     totalPurchased |-> ParseInt(position.totalPurchased),
     totalSold |-> ParseInt(position.totalSold),
     avgPurchasePrice |-> toNumber(position.avgPurchasePriceETH),
     totalSpent |-> toNumber(position.totalSpentETH),
     totalEarned |-> toNumber(position.totalEarnedETH)]

InitBalance ==
    /\ RequestInit("balance")
    /\ idxPosition \in {Null} \cup { Position(b) : b \in Balances }
    /\ TradesIdle /\ LoopIdle /\ OrderbookIdle /\ TimeframeIdle
    /\ ItemStatsIdle /\ MarketIdle

BalanceStart ==
    /\ endpoint = "balance" /\ pc = "start"
    /\ Issue(Query("GetUserBalance", 0, 1))
    /\ pc' = "position"
    /\ UNCHANGED <<endpoint, res, tradesVars, loopVars, orderbookVars,
                   timeframeVars, itemStatsVars, marketVars, balanceVars>>
    /\ UNCHANGED clientVars

BalanceReply ==
    /\ endpoint = "balance" /\ pc = "position"
    /\ \E query \in pending, outcome \in Outcomes :
        /\ Settle(query, outcome)
        /\ res' = IF QueryThrows(outcome)
                  THEN Fail("Failed to fetch user balance")
                  ELSE IF idxPosition = Null THEN Ok(NoPosition)
                  ELSE Ok(BalanceOf(idxPosition))
    /\ pc' = "done"
    /\ UNCHANGED <<endpoint, tradesVars, loopVars, orderbookVars,
                   timeframeVars, itemStatsVars, marketVars, balanceVars>>
    /\ UNCHANGED clientVars

NextBalance == BalanceStart \/ BalanceReply

SpecBalance == InitBalance /\ [][NextBalance]_vars

----------------------------------------------------------------------------
(* GET /api/item-details *)

\* What the game API can do with the request: response.ok is not looked at.
FetchOutcomes == {"ok", "http_error", "network_error"}

\* An entity of the game API's list.
Entity(id, img) ==
    [ID_CID |-> id, NAME_CID |-> "name", DESCRIPTION_CID |-> "description",
     RARITY_NAME |-> "rare", TYPE_CID |-> "type", IMG_URL_CID |-> img,
     ICON_URL_CID |-> "icon"]

\* The bodies a response of the game API can carry: text that is no JSON,
\* JSON without entities, or JSON with a list of entities.
Bodies ==
    { [json |-> FALSE, hasEntities |-> FALSE, entities |-> <<>>],
      [json |-> TRUE, hasEntities |-> FALSE, entities |-> <<>>],
      [json |-> TRUE, hasEntities |-> TRUE, entities |-> <<>>],
      [json |-> TRUE, hasEntities |-> TRUE,
       entities |-> <<Entity(1, "img"), Entity(2, "")>>],
      [json |-> TRUE, hasEntities |-> TRUE,
       entities |-> <<Entity(1, "img"), Entity(1, "")>>] }

\* The entry of itemLookup made for an entity.
Details(item) ==
    [id |-> item.ID_CID, name |-> item.NAME_CID,
     description |-> item.DESCRIPTION_CID, rarity |-> item.RARITY_NAME,
     type |-> item.TYPE_CID,
     image |-> IF item.IMG_URL_CID # "" THEN item.IMG_URL_CID
               ELSE item.ICON_URL_CID,
     icon |-> item.ICON_URL_CID]

\* data.entities.forEach(item => { itemLookup[item.ID_CID] = ... }): a later
\* entity replaces an earlier one of the same id.
ItemLookup(entities) ==
    [id \in { entities[i].ID_CID : i \in DOMAIN entities } |->
        LET last == CHOOSE i \in DOMAIN entities :
                      /\ entities[i].ID_CID = id
                      /\ \A j \in DOMAIN entities :
                           entities[j].ID_CID = id => j <= i
        IN Details(entities[last])]

\* What is kept of the game API's answer: whether the request failed,
\* whether fetch rejected, and the body when there is one.
FetchAnswer(query, outcome, data) ==
    [query |-> query, failed |-> outcome # "ok",
     rejected |-> outcome = "network_error", data |-> data]

InitItemDetails ==
    /\ RequestInit("itemDetails")
    /\ TradesIdle /\ LoopIdle /\ OrderbookIdle /\ TimeframeIdle
    /\ ItemStatsIdle /\ MarketIdle /\ BalanceIdle

ItemDetailsStart ==
    /\ endpoint = "itemDetails" /\ pc = "start"
    /\ Issue(Query("gameitems", 0, 0))
    /\ pc' = "fetch"
    /\ UNCHANGED <<endpoint, res, tradesVars, loopVars, orderbookVars,
                   timeframeVars, itemStatsVars, marketVars, balanceVars>>
    /\ UNCHANGED clientVars

\* fetch rejects, response.json() rejects or data.entities is undefined:
\* the catch block answers; otherwise the lookup is sent.
ItemDetailsReply ==
    /\ endpoint = "itemDetails" /\ pc = "fetch"
    /\ \E query \in pending, outcome \in FetchOutcomes, data \in Bodies :
        /\ pending' = pending \ {query}
        /\ answered' = answered \cup {FetchAnswer(query, outcome, data)}
        /\ UNCHANGED sent
        /\ res' = IF \/ outcome = "network_error"
                     \/ ~data.json
                     \/ ~data.hasEntities
                  THEN Fail("Failed to fetch item details")
                  ELSE Ok(ItemLookup(data.entities))
    /\ pc' = "done"
    /\ UNCHANGED <<endpoint, tradesVars, loopVars, orderbookVars,
                   timeframeVars, itemStatsVars, marketVars, balanceVars>>
    /\ UNCHANGED clientVars

NextItemDetails == ItemDetailsStart \/ ItemDetailsReply

SpecItemDetails == InitItemDetails /\ [][NextItemDetails]_vars

----------------------------------------------------------------------------
(* The server: one request to any endpoint *)

\* The endpoints with a pagination loop.
InitPaged == InitItems \/ InitChart \/ InitOrderbook \/ InitMarket

NextPaged == NextItems \/ NextChart \/ NextOrderbook \/ NextMarket

SpecPaged == InitPaged /\ [][NextPaged]_vars

\* The two endpoints that compute percentage changes.
InitStats == InitItemStats \/ InitMarket

NextStats == NextItemStats \/ NextMarket

SpecStats == InitStats /\ [][NextStats]_vars

InitApi ==
    \/ InitPaged
    \/ InitItemStats
    \/ InitTrades
    \/ InitTimeframe
    \/ InitBalance
    \/ InitItemDetails

NextApi ==
    \/ NextPaged
    \/ NextItemStats
    \/ NextTrades
    \/ NextTimeframe
    \/ NextBalance
    \/ NextItemDetails

SpecApi == InitApi /\ [][NextApi]_vars

----------------------------------------------------------------------------
(* The dashboard: the TradingDashboard component (src/unnamed/part_000)    *)

\* setInterval(refreshData, 30000)
RefreshPeriod == 30000

\* setInterval(updateTicker, 5000)
TickerPeriod == 5000

\* setInterval(loadRecentTradesForTicker, 120000)
LoadPeriod == 120000

\* The periods counted in ticker periods, the unit of now.
RefreshTicks == RefreshPeriod \div TickerPeriod
TickerTicks == TickerPeriod \div TickerPeriod
LoadTicks == LoadPeriod \div TickerPeriod

\* const batchSize = 5 of loadRecentTradesForTicker
tickerBatchSize == 5

\* The items the server knows.
ServedItems == <<"1", "2">>

\* What becomes of a fetch: a response with response.ok, a response with
\* another status (the server's 500 and its JSON error body), no response.
ClientOutcomes == {"ok", "http_error", "rejected"}

\* fetch(`/api/<route>/${item}`) or, with lim, fetch(`...?limit=${lim}`); n
\* numbers the fetches of the component.
Fetch(route, item, lim, n) ==
    [route |-> route, item |-> item, limit |-> lim, id |-> n]

\* The bodies the server can send for an item with status 200.
StatsBodies(item) == {[itemId |-> item, tradeCount |-> 7]}
TradesOf(item) ==
    <<[tx |-> "0x" \o item, timestamp |-> ToISOString(ParseInt(item) * 1000),
       amount |-> 2, ethSpent |-> 2]>>
TradeBodies(item) == {<<>>, TradesOf(item)}
OrderbookBodies(item) ==
    { [asks |-> <<>>],
      [asks |-> <<[price |-> ParseInt(item), amount |-> 1, orders |-> 1]>>] }

\* loadItemStats(item); loadRecentTrades(item); loadOrderBook(item): the
\* three fetches go out before any of them is answered.
LoadItem(item, n) ==
    { Fetch("stats", item, Absent, n + 1),
      Fetch("trades", item, Absent, n + 2),
      Fetch("orderbook", item, Absent, n + 3) }

\* refreshData of a render: if (currentItem) { ... }
RefreshData(render, n) ==
    IF render.currentItem # NoItem THEN LoadItem(render.currentItem, n) ELSE {}

\* The fetches of the first batch of loadRecentTradesForTicker of a render:
\* none when Object.keys(itemDetails) is empty.  Only item sets of at most
\* tickerBatchSize keys occur, so the first batch is the only one.
TickerBatch(render, n) ==
    LET items == render.itemDetails
        batch == CHOOSE f \in [1..Cardinality(items) -> items] :
                    \A i, j \in DOMAIN f : f[i] = f[j] => i = j
    IN IF items = {} \/ Cardinality(items) > tickerBatchSize THEN {}
       ELSE { Fetch("trades", batch[i], "3", n + i) : i \in DOMAIN batch }

\* trades.forEach(trade => allTrades.push({ ...trade, itemId, ... }))
TickerEntries(item, body) ==
    [i \in DOMAIN body |->
        [tx |-> body[i].tx, itemId |-> item, ethValue |-> body[i].ethSpent,
         amount |-> body[i].amount, timestamp |-> body[i].timestamp]]

\* marketData.length > 0
HasItems(data) == "array" \in DOMAIN data /\ Len(data.array) > 0

\* The fetch settled last.
Completed(fetch, outcome) ==
    [route |-> fetch.route, item |-> fetch.item, id |-> fetch.id,
     limit |-> fetch.limit, outcome |-> outcome]

\* The component after its first render and its mount effects: the item
\* details are being fetched and the three timers run with the functions of
\* the first render.
InitClient ==
    /\ endpoint = "dashboard" /\ pc = "start" /\ res = NoResponse
    /\ pending = {} /\ sent = <<>> /\ answered = {}
    /\ TradesIdle /\ LoopIdle /\ OrderbookIdle /\ TimeframeIdle
    /\ ItemStatsIdle /\ MarketIdle /\ BalanceIdle
    /\ now = 0
    /\ itemDetails = {}
    /\ marketData = [array |-> <<>>]
    /\ currentItem = NoItem
    /\ statsState = Placeholder
    /\ recentTrades = <<>> /\ orderBook = <<>>
    /\ allRecentTrades = <<>> /\ tickerIndex = 0
    /\ tickerRender = FirstRender
    /\ refreshElapsed = 0 /\ tickerElapsed = 0 /\ loadElapsed = 0
    /\ inflight = {Fetch("item-details", NoItem, Absent, 1)}
    /\ issued = 1
    /\ completed = NoFetch
    /\ allTrades = <<>>
    /\ clicks = 0
    /\ WalletIdle

\* 5 s pass; a timer that is due fires first.
ClientTick ==
    /\ endpoint = "dashboard"
    /\ now < MaxTicks
    /\ refreshElapsed < RefreshTicks
    /\ tickerElapsed < TickerTicks
    /\ loadElapsed < LoadTicks
    /\ now' = now + 1
    /\ refreshElapsed' = refreshElapsed + 1
    /\ tickerElapsed' = tickerElapsed + 1
    /\ loadElapsed' = loadElapsed + 1
    /\ UNCHANGED <<serverVars, walletVars, stateVars, tickerRender, fetchVars,
                   clicks>>

\* The interval of the mount effect fires: refreshData of the first render,
\* the effect having no dependencies.
RefreshTimer ==
    /\ endpoint = "dashboard"
    /\ refreshElapsed = RefreshTicks
    /\ refreshElapsed' = 0
    /\ inflight' = inflight \cup RefreshData(FirstRender, issued)
    /\ issued' = issued + Cardinality(RefreshData(FirstRender, issued))
    /\ UNCHANGED <<serverVars, walletVars, stateVars, now, tickerRender, tickerElapsed,
                   loadElapsed, completed, allTrades, clicks>>

\* The 5 s interval of the ticker effect fires: updateTicker of the render
\* the effect ran after.  A new tickerIndex renders the component and runs
\* the effect again: both of its intervals are cleared and started anew.
TickerTimer ==
    /\ endpoint = "dashboard"
    /\ tickerElapsed = TickerTicks
    /\ tickerElapsed' = 0
    /\ IF tickerRender.allRecentTrades = <<>>
       THEN UNCHANGED <<tickerIndex, tickerRender, loadElapsed>>
       ELSE LET next == (tickerRender.tickerIndex + 1)
                            % Len(tickerRender.allRecentTrades)
            IN /\ tickerIndex' = next
               /\ IF next # tickerIndex
                  THEN /\ tickerRender' = Render(itemDetails, allRecentTrades,
                                                 next, currentItem)
                       /\ loadElapsed' = 0
                  ELSE UNCHANGED <<tickerRender, loadElapsed>>
    /\ UNCHANGED <<serverVars, walletVars, itemDetails, marketData, currentItem,
                   statsState, recentTrades, orderBook, allRecentTrades, now,
                   refreshElapsed, fetchVars, clicks>>

\* The 120 s interval of the ticker effect fires: loadRecentTradesForTicker
\* of the render the effect ran after.
LoadTimer ==
    /\ endpoint = "dashboard"
    /\ loadElapsed = LoadTicks
    /\ loadElapsed' = 0
    /\ inflight' = inflight \cup TickerBatch(tickerRender, issued)
    /\ issued' = issued + Cardinality(TickerBatch(tickerRender, issued))
    /\ allTrades' = IF tickerRender.itemDetails = {} THEN allTrades ELSE <<>>
    /\ UNCHANGED <<serverVars, walletVars, stateVars, now, tickerRender, refreshElapsed,
                   tickerElapsed, completed, clicks>>

\* loadItemDetails settles: response.ok is not looked at, so the body of a
\* 500 becomes itemDetails; then loadMarkets() and initTicker() of the first
\* render run, whose loadRecentTradesForTicker and updateTicker see the
\* empty itemDetails and allRecentTrades of that render.
ItemDetailsSettles ==
    /\ endpoint = "dashboard"
    /\ \E fetch \in inflight, outcome \in ClientOutcomes :
        /\ fetch.route = "item-details"
        /\ itemDetails' =
             CASE outcome = "ok" -> { ServedItems[i] : i \in DOMAIN ServedItems }
               [] outcome = "http_error" -> {"error"}
               [] outcome = "rejected" -> itemDetails
        /\ inflight' = (inflight \ {fetch})
                         \cup {Fetch("items", NoItem, Absent, issued + 1)}
                         \cup TickerBatch(FirstRender, issued + 1)
        /\ issued' = issued + 1 + Cardinality(TickerBatch(FirstRender, issued + 1))
        /\ completed' = Completed(fetch, outcome)
    /\ UNCHANGED <<serverVars, walletVars, marketData, currentItem, statsState,
                   recentTrades, orderBook, allRecentTrades, tickerIndex,
                   timerVars, allTrades, clicks>>

\* loadMarkets settles: response.ok is not looked at.  With items and no
\* current item the first item is selected, and the effect of currentItem
\* loads its statistics, trades and order book.
MarketsSettle ==
    /\ endpoint = "dashboard"
    /\ \E fetch \in inflight, outcome \in ClientOutcomes,
          items \in {<<>>, ServedItems} :
        /\ fetch.route = "items"
        /\ marketData' =
             CASE outcome = "ok" -> [array |-> items]
               [] outcome = "http_error" -> [error |-> "Failed to fetch items"]
               [] outcome = "rejected" -> marketData
        /\ IF HasItems(marketData') /\ currentItem = NoItem
           THEN /\ currentItem' = marketData'.array[1]
                /\ inflight' = (inflight \ {fetch})
                                 \cup LoadItem(marketData'.array[1], issued)
                /\ issued' = issued + 3
           ELSE /\ inflight' = inflight \ {fetch}
                /\ UNCHANGED <<currentItem, issued>>
        /\ completed' = Completed(fetch, outcome)
    /\ UNCHANGED <<serverVars, walletVars, itemDetails, statsState, recentTrades,
                   orderBook, allRecentTrades, tickerIndex, timerVars,
                   allTrades, clicks>>

\* onClick={() => setCurrentItem(itemId)} on an item of the market list; the
\* effect of currentItem loads the item.
SelectItem ==
    /\ endpoint = "dashboard"
    /\ clicks < MaxClicks
    /\ HasItems(marketData)
    /\ \E i \in DOMAIN marketData.array :
        /\ marketData.array[i] # currentItem
        /\ currentItem' = marketData.array[i]
        /\ inflight' = inflight \cup LoadItem(marketData.array[i], issued)
        /\ issued' = issued + 3
    /\ clicks' = clicks + 1
    /\ UNCHANGED <<serverVars, walletVars, itemDetails, marketData, statsState,
                   recentTrades, orderBook, allRecentTrades, tickerIndex,
                   timerVars, completed, allTrades>>

\* loadItemStats settles: if (response.ok) setStats(data)
StatsSettles ==
    /\ endpoint = "dashboard"
    /\ \E fetch \in inflight, outcome \in ClientOutcomes :
        /\ fetch.route = "stats"
        /\ \E data \in StatsBodies(fetch.item) :
             statsState' = IF outcome = "ok" THEN data ELSE statsState
        /\ inflight' = inflight \ {fetch}
        /\ completed' = Completed(fetch, outcome)
    /\ UNCHANGED <<serverVars, walletVars, itemDetails, marketData, currentItem,
                   recentTrades, orderBook, allRecentTrades, tickerIndex,
                   timerVars, issued, allTrades, clicks>>

\* A fetch of /api/trades settles.  loadRecentTrades: if (response.ok)
\* setRecentTrades(data), and setRecentTrades([]) in the catch block.  A
\* fetch of loadRecentTradesForTicker: the trades of an array body are
\* pushed to allTrades; when the batch has settled, setAllRecentTrades
\* renders the component and runs the ticker effect again.
TradesSettles ==
    /\ endpoint = "dashboard"
    /\ \E fetch \in inflight, outcome \in ClientOutcomes :
        /\ fetch.route = "trades"
        /\ \E data \in TradeBodies(fetch.item) :
            IF fetch.limit = Absent
            THEN /\ recentTrades' =
                      CASE outcome = "ok" -> data
                        [] outcome = "http_error" -> recentTrades
                        [] outcome = "rejected" -> <<>>
                 /\ UNCHANGED <<allRecentTrades, allTrades, timerVars>>
            ELSE LET pushed == IF outcome = "ok"
                               THEN allTrades \o TickerEntries(fetch.item, data)
                               ELSE allTrades
                     last == \A other \in inflight \ {fetch} :
                                other.limit = Absent
                     sorted == Slice(SortBy(pushed, NewestFirstKey), 40)
                 IN /\ allTrades' = pushed
                    /\ IF last
                       THEN /\ allRecentTrades' = sorted
                            /\ tickerRender' = Render(itemDetails, sorted,
                                                      tickerIndex, currentItem)
                            /\ tickerElapsed' = 0
                            /\ loadElapsed' = 0
                            /\ UNCHANGED <<now, refreshElapsed>>
                       ELSE UNCHANGED <<allRecentTrades, timerVars>>
                    /\ UNCHANGED recentTrades
        /\ inflight' = inflight \ {fetch}
        /\ completed' = Completed(fetch, outcome)
    /\ UNCHANGED <<serverVars, walletVars, itemDetails, marketData, currentItem,
                   statsState, orderBook, tickerIndex, issued, clicks>>

\* loadOrderBook settles: if (response.ok) setOrderBook(data.asks || []),
\* and setOrderBook([]) in the catch block.
OrderBookSettles ==
    /\ endpoint = "dashboard"
    /\ \E fetch \in inflight, outcome \in ClientOutcomes :
        /\ fetch.route = "orderbook"
        /\ \E data \in OrderbookBodies(fetch.item) :
             orderBook' = CASE outcome = "ok" -> data.asks
                            [] outcome = "http_error" -> orderBook
                            [] outcome = "rejected" -> <<>>
        /\ inflight' = inflight \ {fetch}
        /\ completed' = Completed(fetch, outcome)
    /\ UNCHANGED <<serverVars, walletVars, itemDetails, marketData, currentItem,
                   statsState, recentTrades, allRecentTrades, tickerIndex,
                   timerVars, issued, allTrades, clicks>>

NextClient ==
    \/ ClientTick
    \/ RefreshTimer
    \/ TickerTimer
    \/ LoadTimer
    \/ ItemDetailsSettles
    \/ MarketsSettle
    \/ SelectItem
    \/ StatsSettles
    \/ TradesSettles
    \/ OrderBookSettles

SpecClient == InitClient /\ [][NextClient]_vars

----------------------------------------------------------------------------
(* The wallet panel of the dashboard: handleConnect, handleDisconnect,      *)
(* createSessionKey and the message banner.  Time advances in seconds.  A   *)
(* call of the wallet library (login, logout, createSessionAsync) is        *)
(* answered at any later time, with success or with an error.               *)

BannerDelay == 5000          \* setTimeout(() => setMessage(''), 5000)
SessionBannerDelay == 8000   \* setTimeout(() => setMessage(''), 8000)
Second == 1000               \* Date.now() / 1000

WalletOutcomes == {"ok", "failed"}

\* error.message of a rejected call.
ErrorMessages == {"", "User rejected the request"}

\* transactionHash of a created session, by its first ten characters.
TransactionHashes == {Absent, "0x1234abcd"}

\* A call of the wallet library that is awaited: n numbers the operations,
\* at is the second in which the operation was started.
Call(op, n, expiresAt, signer) ==
    [op |-> op, id |-> n, expiresAt |-> expiresAt, signer |-> signer,
     at |-> seconds]

\* sessionSigner.address of the key that operation n generates.
SignerAddress(n) == "0xsigner" \o Dec(n)

\* const expiryTime = BigInt(Math.floor(Date.now() / 1000) + 24 * 60 * 60)
expiryTime(t) == t + 24 * 60 * 60

\* A bug the banner properties must catch: no removal is scheduled.
NoRemoval(n, delay) == {}

\* setTimeout(() => setMessage(''), delay) of operation n.
Removal(n, delay) == {[remaining |-> delay \div Second, op |-> n]}

\* setMessage(text); setTimeout(() => setMessage(''), delay) of operation n
SetMessage(text, n, delay) ==
    /\ message' = text
    /\ messageOp' = n
    /\ timeouts' = timeouts \cup Removal(n, delay)

\* A bug the loading properties must catch: setLoading(false) at the end of
\* the try block and not in finally.
LoadingAfterTry(outcome) == outcome # "ok"

\* finally { setLoading(false) }
LoadingAfter(outcome) == FALSE

\* A bug the session properties must catch: logout forgets the key and
\* keeps the expiry.
SessionKeyCleared == [key |-> NoSession, expiry |-> sessionExpiry]

\* setSessionKey(null); setSessionExpiry(null)
SessionCleared == [key |-> NoSession, expiry |-> NoExpiry]

\* `Session key created successfully! TX: ${transactionHash ? ... : 'N/A'}`
SessionMessage(transactionHash) ==
    "Session key created successfully! TX: "
        \o (IF transactionHash = Absent THEN "N/A"
            ELSE transactionHash \o "...")

InitWallet ==
    /\ RequestInit("wallet")
    /\ TradesIdle /\ LoopIdle /\ OrderbookIdle /\ TimeframeIdle
    /\ ItemStatsIdle /\ MarketIdle /\ BalanceIdle

\* An operation can be started: the panel is watched for MaxSeconds and for
\* MaxOps operations.
CanStart == endpoint = "wallet" /\ started < MaxOps /\ seconds < MaxSeconds

\* The Connect button, shown while not connected and disabled while
\* loading, is clicked: handleConnect up to await login().
HandleConnect ==
    /\ CanStart
    /\ ~isConnected /\ ~loading
    /\ loading' = TRUE
    /\ calls' = calls \cup {Call("login", started + 1, NoExpiry, NoSession)}
    /\ started' = started + 1
    /\ UNCHANGED <<isConnected, abstractClient, sessionKey, sessionExpiry,
                   message, messageOp, timeouts, seconds>>
    /\ UNCHANGED <<serverVars, stateVars, timerVars, fetchVars, clicks>>

\* login() settles: the rest of handleConnect.  After a login the account
\* is connected; the wallet client arrives later.
LoginSettles ==
    /\ endpoint = "wallet"
    /\ \E call \in calls, outcome \in WalletOutcomes, error \in ErrorMessages :
        /\ call.op = "login"
        /\ calls' = calls \ {call}
        /\ IF outcome = "ok"
           THEN /\ SetMessage("AGW Connected Successfully!", call.id,
                              BannerDelay)
                /\ isConnected' = TRUE
           ELSE /\ SetMessage("Connection failed: " \o error, call.id,
                              BannerDelay)
                /\ UNCHANGED isConnected
        /\ loading' = LoadingAfter(outcome)
    /\ UNCHANGED <<abstractClient, sessionKey, sessionExpiry, seconds, started>>
    /\ UNCHANGED <<serverVars, stateVars, timerVars, fetchVars, clicks>>

\* useAbstractClient delivers the client of the connected account.
ClientLoads ==
    /\ endpoint = "wallet"
    /\ isConnected /\ ~abstractClient
    /\ abstractClient' = TRUE
    /\ UNCHANGED <<isConnected, sessionKey, sessionExpiry, loading, message,
                   messageOp, timeouts, calls, seconds, started>>
    /\ UNCHANGED <<serverVars, stateVars, timerVars, fetchVars, clicks>>

\* The Disconnect button, shown while connected and never disabled, is
\* clicked: handleDisconnect up to await logout().
HandleDisconnect ==
    /\ CanStart
    /\ isConnected
    /\ calls' = calls \cup {Call("logout", started + 1, NoExpiry, NoSession)}
    /\ started' = started + 1
    /\ UNCHANGED <<isConnected, abstractClient, sessionKey, sessionExpiry,
                   loading, message, messageOp, timeouts, seconds>>
    /\ UNCHANGED <<serverVars, stateVars, timerVars, fetchVars, clicks>>

\* logout() settles: the rest of handleDisconnect.
LogoutSettles ==
    /\ endpoint = "wallet"
    /\ \E call \in calls, outcome \in WalletOutcomes, error \in ErrorMessages :
        /\ call.op = "logout"
        /\ calls' = calls \ {call}
        /\ IF outcome = "ok"
           THEN /\ sessionKey' = SessionCleared.key
                /\ sessionExpiry' = SessionCleared.expiry
                /\ SetMessage("AGW Disconnected Successfully", call.id,
                              BannerDelay)
                /\ isConnected' = FALSE
                /\ abstractClient' = FALSE
           ELSE /\ SetMessage("Disconnect failed: " \o error, call.id,
                              BannerDelay)
                /\ UNCHANGED <<sessionKey, sessionExpiry, isConnected,
                               abstractClient>>
    /\ UNCHANGED <<loading, seconds, started>>
    /\ UNCHANGED <<serverVars, stateVars, timerVars, fetchVars, clicks>>

\* The Create Session Key button, shown while connected without a session
\* key and disabled while loading, is clicked: createSessionKey up to its
\* early return or up to await createSessionAsync().
CreateSessionKey ==
    /\ CanStart
    /\ isConnected /\ sessionKey = NoSession /\ ~loading
    /\ started' = started + 1
    /\ IF ~isConnected \/ ~abstractClient
       THEN /\ SetMessage("Please connect AGW first", started + 1, BannerDelay)
            /\ UNCHANGED <<loading, calls>>
       ELSE /\ loading' = TRUE
            /\ calls' = calls \cup
                 {Call("createSession", started + 1, expiryTime(seconds),
                       SignerAddress(started + 1))}
            /\ UNCHANGED <<message, messageOp, timeouts>>
    /\ UNCHANGED <<isConnected, abstractClient, sessionKey, sessionExpiry,
                   seconds>>
    /\ UNCHANGED <<serverVars, stateVars, timerVars, fetchVars, clicks>>

\* createSessionAsync() settles: the rest of createSessionKey.
CreateSessionSettles ==
    /\ endpoint = "wallet"
    /\ \E call \in calls, outcome \in WalletOutcomes, error \in ErrorMessages,
          transactionHash \in TransactionHashes :
        /\ call.op = "createSession"
        /\ calls' = calls \ {call}
        /\ IF outcome = "ok"
           THEN /\ sessionKey' = call.signer
                /\ sessionExpiry' = call.expiresAt
                /\ SetMessage(SessionMessage(transactionHash), call.id,
                              SessionBannerDelay)
           ELSE /\ SetMessage("Session creation failed: " \o error, call.id,
                              BannerDelay)
                /\ UNCHANGED <<sessionKey, sessionExpiry>>
        /\ loading' = LoadingAfter(outcome)
    /\ UNCHANGED <<isConnected, abstractClient, seconds, started>>
    /\ UNCHANGED <<serverVars, stateVars, timerVars, fetchVars, clicks>>

\* A timeout that is due fires: () => setMessage('').  No handler clears a
\* timeout.
MessageTimeout ==
    /\ endpoint = "wallet"
    /\ \E timeout \in timeouts :
        /\ timeout.remaining = 0
        /\ timeouts' = timeouts \ {timeout}
    /\ message' = ""
    /\ messageOp' = 0
    /\ UNCHANGED <<isConnected, abstractClient, sessionKey, sessionExpiry,
                   loading, calls, seconds, started>>
    /\ UNCHANGED <<serverVars, stateVars, timerVars, fetchVars, clicks>>

\* A second passes; a timeout that is due fires first.  The clock is
\* followed up to MaxSeconds, after which no operation starts and reads it.
WalletTick ==
    /\ endpoint = "wallet"
    /\ \A timeout \in timeouts : timeout.remaining > 0
    /\ timeouts' = { [timeout EXCEPT !.remaining = @ - 1] :
                       timeout \in timeouts }
    /\ seconds' = IF seconds < MaxSeconds THEN seconds + 1 ELSE seconds
    /\ UNCHANGED <<isConnected, abstractClient, sessionKey, sessionExpiry,
                   loading, message, messageOp, calls, started>>
    /\ UNCHANGED <<serverVars, stateVars, timerVars, fetchVars, clicks>>

NextWallet ==
    \/ HandleConnect
    \/ LoginSettles
    \/ ClientLoads
    \/ HandleDisconnect
    \/ LogoutSettles
    \/ CreateSessionKey
    \/ CreateSessionSettles
    \/ MessageTimeout
    \/ WalletTick

SpecWallet == InitWallet /\ [][NextWallet]_vars

\* Time passes and a timeout that is due fires.
SpecWalletFair ==
    /\ SpecWallet
    /\ WF_vars(WalletTick)
    /\ WF_vars(MessageTimeout)

----------------------------------------------------------------------------
(* Properties of GET /api/orderbook/:itemId *)

OrderbookServed == endpoint = "orderbook" /\ pc = "done" /\ res.status = 200

\* The listings fetched whose price is that of a level.
ListingsAt(price) ==
    { i \in DOMAIN allRows : toNumber(allRows[i].pricePerItemETH) = price }

RECURSIVE SumOfRemaining(_)
\* The sum of amountRemaining over a set of listings fetched.
SumOfRemaining(positions) ==
    IF positions = {} THEN 0
    ELSE LET i == CHOOSE j \in positions : TRUE
         IN ParseInt(allRows[i].amountRemaining)
              + SumOfRemaining(positions \ {i})

\* C2: when GET /api/orderbook/:itemId has aggregated the listings it
\* fetched, the amounts of the price levels add up to the amountRemaining
\* of the listings, the orders add up to the number of listings, and each
\* level's amount and orders are the sum and the count of the listings at
\* exactly its price.
C2_OrderbookIsPartition ==
    OrderbookServed =>
        LET levels == MapValues(priceMap) IN
        /\ SumOver(levels, LAMBDA l : l.amount)
             = SumOver(allRows, LAMBDA l : ParseInt(l.amountRemaining))
        /\ SumOver(levels, LAMBDA l : l.orders) = Len(allRows)
        /\ \A i \in DOMAIN levels :
             /\ levels[i].amount = SumOfRemaining(ListingsAt(levels[i].price))
             /\ levels[i].orders = Cardinality(ListingsAt(levels[i].price))

\* Four listings were aggregated into two levels, one of three orders.
C2_Witness ==
    /\ OrderbookServed
    /\ Len(allRows) = 4
    /\ Len(priceMap) = 2
    /\ \E i \in DOMAIN priceMap : priceMap[i].value.orders = 3

\* The distinct prices of the listings fetched.
PricesFetched == { toNumber(allRows[i].pricePerItemETH) : i \in DOMAIN allRows }

\* C3: the asks returned by GET /api/orderbook/:itemId are strictly
\* ascending by price, at most 100 levels, and they are the lowest-priced
\* levels of the listings: min(100, number of distinct prices) levels, each
\* omitted price greater than every returned price.
C3_AsksAscendingLowest ==
    OrderbookServed =>
        LET returned == res.body.asks
            prices == { returned[i].price : i \in DOMAIN returned }
        IN /\ \A i \in 1..(Len(returned) - 1) :
                returned[i].price < returned[i + 1].price
           /\ Len(returned) <= 100
           /\ Len(returned) =
                IF Cardinality(PricesFetched) < 100
                THEN Cardinality(PricesFetched) ELSE 100
           /\ prices \subseteq PricesFetched
           /\ \A q \in PricesFetched \ prices : \A p \in prices : q > p

\* More than 100 distinct prices were listed and 100 levels are returned.
C3_Witness ==
    /\ OrderbookServed
    /\ Cardinality(PricesFetched) > 100
    /\ Len(res.body.asks) = 100

----------------------------------------------------------------------------
(* Properties of GET /api/trades/:itemId *)

TradesServed == endpoint = "trades" /\ pc = "done" /\ res.status = 200

\* The transfers of the input that share a trade's transaction, price and
\* recipient.
TransfersOf(trade) ==
    { i \in DOMAIN transfers :
        /\ transfers[i].txHash = trade.tx
        /\ toNumber(transfers[i].pricePerItemETH) = trade.price
        /\ transfers[i].transferredTo.id = trade.buyer }

RECURSIVE SumAt(_, _)
\* The sum of f over a set of positions.
SumAt(f, positions) ==
    IF positions = {} THEN 0
    ELSE LET i == CHOOSE j \in positions : TRUE
         IN f[i] + SumAt(f, positions \ {i})

\* C1: when GET /api/trades/:itemId has grouped the transfers it received,
\* the quantities of the grouped trades add up to the quantities of the
\* transfers and the tradeCounts add up to the number of transfers: no
\* transfer is dropped or counted twice.
C1_TradeGroupingIsPartition ==
    TradesServed =>
        /\ SumOver(MapValues(groupedTrades), LAMBDA t : t.amount)
             = SumOver(transfers, LAMBDA t : ParseInt(t.amount))
        /\ SumOver(MapValues(groupedTrades), LAMBDA t : t.tradeCount)
             = Len(transfers)

\* Three transfers were grouped into two trades.
C1_Witness ==
    /\ TradesServed
    /\ Len(transfers) = 3
    /\ Len(groupedTrades) = 2

\* C4 as stated: the returned trades are strictly descending by timestamp
\* and at most tradeLimit many.
C4_StrictlyDescending ==
    TradesServed =>
        /\ \A i \in 1..(Len(res.body) - 1) :
             DateValue(res.body[i].timestamp) > DateValue(res.body[i + 1].timestamp)
        /\ Len(res.body) <= tradeLimit

\* C4 amended: the returned trades are in non-increasing order of timestamp
\* (two trades may share a timestamp) and at most tradeLimit many.
C4_NonIncreasing ==
    TradesServed =>
        /\ \A i \in 1..(Len(res.body) - 1) :
             DateValue(res.body[i].timestamp) >= DateValue(res.body[i + 1].timestamp)
        /\ Len(res.body) <= tradeLimit

\* Two trades of different blocks are returned, and the limit cut a third.
C4_Witness ==
    /\ TradesServed
    /\ Len(res.body) = 2
    /\ Len(groupedTrades) = 3
    /\ DateValue(res.body[1].timestamp) > DateValue(res.body[2].timestamp)

\* C5: the grouping holds exactly one trade per distinct (txHash,
\* pricePerItemETH, recipient) of the input, and each trade's amount,
\* ethSpent and tradeCount are the sum of amount, the sum of totalValueETH
\* and the number of the transfers that have its key; transfers that differ
\* in a key component are in different trades.
C5_OneTradePerKey ==
    TradesServed =>
        LET grouped == MapValues(groupedTrades)
            keys == { <<transfers[i].txHash, transfers[i].pricePerItemETH,
                        transfers[i].transferredTo.id>> : i \in DOMAIN transfers }
        IN /\ Len(grouped) = Cardinality(keys)
           /\ \A k \in keys :
                \E i \in DOMAIN grouped :
                    /\ grouped[i].tx = k[1]
                    /\ grouped[i].price = toNumber(k[2])
                    /\ grouped[i].buyer = k[3]
           /\ \A i \in DOMAIN grouped :
                /\ TransfersOf(grouped[i]) # {}
                /\ grouped[i].amount =
                     SumAt([j \in DOMAIN transfers |-> ParseInt(transfers[j].amount)],
                           TransfersOf(grouped[i]))
                /\ grouped[i].ethSpent =
                     SumAt([j \in DOMAIN transfers |-> toNumber(transfers[j].totalValueETH)],
                           TransfersOf(grouped[i]))
                /\ grouped[i].tradeCount = Cardinality(TransfersOf(grouped[i]))

\* Quantities 2 and 3 of one transaction, price and buyer became one trade
\* of quantity 5 and tradeCount 2, beside a trade of another price.
C5_Witness ==
    /\ TradesServed
    /\ Len(transfers) = 3
    /\ transfers[1].amount = "2"
    /\ transfers[2].amount = "3"
    /\ TradeKey(transfers[1]) = TradeKey(transfers[2])
    /\ transfers[3].txHash = transfers[1].txHash
    /\ transfers[3].pricePerItemETH # transfers[1].pricePerItemETH
    /\ Len(groupedTrades) = 2
    /\ groupedTrades[1].value.amount = 5
    /\ groupedTrades[1].value.tradeCount = 2

----------------------------------------------------------------------------
(* Properties of the pagination loops *)

\* The page requests sent so far for the query of the given name.
PageRequests(name) == SelectSeq(sent, LAMBDA query : query.q = name)

\* The name of the query of the endpoint's first pagination loop.
LoopQuery ==
    CASE endpoint = "items" -> "GetAllItems"
      [] endpoint = "chart" -> "GetTransfers"
      [] endpoint = "orderbook" -> "GetOrderbook"
      [] endpoint = "stats" -> "GetItems"
      [] OTHER -> "none"

\* The queries of the pagination loops.
IsPageRequest(query) ==
    query.q \in {LoopQuery, "GetMarketVolume24h", "GetMarketVolume48h"}

\* The pagination loops of the request: the name of the query, the rows of
\* the index that match it, the rows accumulated so far and whether the loop
\* has ended on a short page.
Loops ==
    { [name |-> LoopQuery,
       rows |-> IF endpoint = "items"
                THEN [i \in DOMAIN idxRows |-> idxRows[i].id] ELSE idxRows,
       fetched |-> allRows,
       finished |-> ~hasMore],
      [name |-> "GetMarketVolume24h",
       rows |-> MarketRows("GetMarketVolume24h"),
       fetched |-> volume24hTransfers,
       finished |-> PageRequests("GetMarketVolume48h") # <<>>],
      [name |-> "GetMarketVolume48h",
       rows |-> MarketRows("GetMarketVolume48h"),
       fetched |-> volume48hTransfers,
       finished |-> ~volumeHasMore] }

\* The number of page requests a loop over n rows needs.
PagesFor(n) == (n \div PageLimit) + 1

\* The skips of the requests are 0, P, 2P, ..., there are never more than
\* floor(N/P) + 1 of them, and a loop that has ended has fetched the N rows
\* in the index's order with exactly floor(N/P) + 1 requests.
LoopFetchesAll(loop) ==
    LET requests == PageRequests(loop.name)
    IN /\ \A k \in DOMAIN requests :
            /\ requests[k].skip = (k - 1) * PageLimit
            /\ requests[k].first = PageLimit
       /\ Len(requests) <= PagesFor(Len(loop.rows))
       /\ loop.finished =>
            /\ loop.fetched = loop.rows
            /\ Len(requests) = PagesFor(Len(loop.rows))

\* A request that has not been responded to awaits exactly one answer or,
\* in /api/stats after the loops, the answers of the items' callbacks: as
\* long as a loop runs, a page request is outstanding.
LoopProgresses ==
    pc \in {"page", "volume24h", "volume48h"} =>
        \E query \in pending : pending = {query} /\ IsPageRequest(query)

\* C6: every pagination loop asks for the pages at skip 0, P, 2P, ..., with
\* P = 1000, ends at the first page of fewer than P rows having fetched all
\* N matching rows in the index's order, none missing or repeated, with
\* exactly floor(N/P) + 1 requests; it terminates: it never sends more than
\* floor(N/P) + 1 requests and, while it runs, the answer to a page request
\* is all it waits for.
C6_PaginationFetchesAll ==
    /\ \A loop \in Loops : LoopFetchesAll(loop)
    /\ LoopProgresses

\* A loop over 1400 rows has ended after two requests, of 1000 and of 400
\* rows, and the 1400 rows are in the response.
C6_Witness ==
    /\ endpoint = "items" /\ pc = "done" /\ res.status = 200
    /\ Len(idxRows) = PageLimit + 400
    /\ Len(res.body) = PageLimit + 400
    /\ Len(PageRequests("GetAllItems")) = 2

\* The response of a handler's catch block: status 500 and a body that
\* holds nothing but one of the fixed messages.
GenericMessages ==
    { "Failed to fetch items", "Failed to fetch chart data",
      "Failed to fetch orderbook", "Failed to fetch market stats",
      "Failed to fetch item stats", "Failed to fetch trades",
      "Failed to fetch timeframe data", "Failed to fetch user balance",
      "Failed to fetch item details" }

IsGeneric500 ==
    /\ res.status = 500
    /\ DOMAIN res.body = {"error"}
    /\ res.body.error \in GenericMessages

\* C7: once a page request has failed (no response, HTTP status not ok or
\* GraphQL errors), the failed request is the last one the handler has
\* sent and it was sent once (no further page, no retry), nothing is
\* pending, and the response is a 500 whose body holds only a fixed error
\* message, hence none of the rows fetched before.
C7_PageFailureAborts ==
    \A a \in answered :
        (a.failed /\ IsPageRequest(a.query)) =>
            /\ pc = "done"
            /\ pending = {}
            /\ sent[Len(sent)] = a.query
            /\ Cardinality({ k \in DOMAIN sent : sent[k] = a.query }) = 1
            /\ IsGeneric500

\* The second page request failed after a first page of 1000 rows had been
\* accumulated.
C7_Witness ==
    /\ endpoint = "orderbook" /\ pc = "done"
    /\ Len(allRows) = PageLimit
    /\ Len(sent) = 2
    /\ [query |-> sent[2], failed |-> TRUE] \in answered
    /\ res.status = 500

----------------------------------------------------------------------------
(* Properties of the statistics *)

\* change is the quotient (current - previous) / previous * 100 when
\* previous is not 0 and exactly 0 when it is, and no division by zero has
\* produced it.
IsChange(change, current, previous) ==
    /\ change.den # 0
    /\ previous = 0 => change = Zero
    /\ previous # 0 =>
         change.num * previous = (current - previous) * 100 * change.den

\* The price change of a window: 0 with fewer than two transfers, otherwise
\* the change from the first price to the last.
IsPriceChange(change, window) ==
    IF Len(window) < 2 THEN change = Zero
    ELSE IsChange(change, toNumber(window[Len(window)].pricePerItemETH),
                  toNumber(window[1].pricePerItemETH))

\* The transfers of a window that the window's query returns.
Returned(window) == Slice(window, WindowLimit)

\* The records of the response that a per-item computation has produced.
Computed ==
    IF endpoint = "stats" /\ pc = "done" /\ res.status = 200
    THEN { i \in DOMAIN res.body : "volumeChange24h" \in DOMAIN res.body[i] }
    ELSE {}

\* C8: in the response of GET /api/stats/:itemId and in every computed
\* per-item record of GET /api/stats, volumeChange24h (and itemsSoldChange24h
\* of /api/stats/:itemId) is exactly 0 when the total of the previous window
\* is 0 and (current - previous) / previous * 100 otherwise, priceChange24h
\* is exactly 0 when the window has fewer than two transfers or its first
\* price is 0 and (last - first) / first * 100 otherwise, and none of them
\* comes from a division by zero; current and previous are the totals over
\* the transfers that the window queries return.
C8_ChangesGuarded ==
    /\ (endpoint = "itemStats" /\ pc = "done" /\ res.status = 200
          /\ res.body # Null) =>
         LET t24 == Returned(idxItem[1].t24)
             t48 == Returned(idxItem[1].t48)
         IN /\ IsChange(res.body.volumeChange24h, Volume(t24), Volume(t48))
            /\ IsChange(res.body.itemsSoldChange24h, ItemsSold(t24),
                        ItemsSold(t48))
            /\ IsPriceChange(res.body.priceChange24h, t24)
    /\ \A i \in Computed :
         LET t24 == Returned(idxItem[i].t24)
             t48 == Returned(idxItem[i].t48)
         IN /\ IsChange(res.body[i].volumeChange24h, Volume(t24), Volume(t48))
            /\ IsPriceChange(res.body[i].priceChange24h, t24)

\* /api/stats/:itemId has answered for an item with a positive volume in the
\* last 24h and none in the 24h before: volumeChange24h is 0.
C8_Witness ==
    /\ endpoint = "itemStats" /\ pc = "done" /\ res.status = 200
    /\ res.body # Null
    /\ res.body.totalEthVolume24h > 0
    /\ Volume(idxItem[1].t48) = 0
    /\ idxItem[1].t48 # <<>>
    /\ res.body.volumeChange24h = Zero
    /\ res.body.priceChange24h.num # 0

----------------------------------------------------------------------------
(* Properties of the error handling *)

\* The upstream answers that report a failure.
Failures == { a \in answered : a.failed }

\* C9 as stated: whenever an upstream request of the request has failed,
\* the response is a 500 with a body {error: message}.
C9_AnyFailureIs500 ==
    (pc = "done" /\ Failures # {}) => IsGeneric500

\* The fields of the record that an item's callback returns after a failure.
ZeroFields ==
    {"itemId", "tradeCount", "totalItemsSold24h", "totalEthVolume24h",
     "avgPrice", "minPrice", "maxPrice", "currentPrice", "floorPrice",
     "price24hAgo", "priceChange24h", "lastTrade", "marketVolumeChange24h"}

\* The record of item i in the response is the zeroed one.
IsZeroed(i) ==
    /\ DOMAIN res.body[i] = ZeroFields
    /\ res.body[i].itemId = allRows[i].id
    /\ res.body[i].tradeCount = 0
    /\ res.body[i].totalItemsSold24h = 0
    /\ res.body[i].totalEthVolume24h = 0
    /\ res.body[i].currentPrice = 0
    /\ res.body[i].floorPrice = 0
    /\ res.body[i].priceChange24h = Zero
    /\ res.body[i].lastTrade = Null

\* C9 amended: when an upstream request has failed, the response is a 500
\* with a body {error: message}, with two exceptions.  In GET /api/stats the
\* failure of a per-item query is caught in the item's callback: if no page
\* request failed the response is a 200 in which the record of every item
\* with a failed query is the zeroed record.  GET /api/item-details does not
\* look at the HTTP status: it answers 500 only if fetch rejects, the body is
\* no JSON or the body has no entities, and 200 otherwise.
C9_FailureIs500OrZeroed ==
    (pc = "done" /\ Failures # {}) =>
        CASE endpoint = "stats" /\ (\A a \in Failures : a.query.item # 0) ->
               /\ res.status = 200
               /\ DOMAIN res.body = DOMAIN allRows
               /\ \A a \in Failures : IsZeroed(a.query.item)
          [] endpoint = "itemDetails" ->
               \A a \in Failures :
                   IF a.rejected \/ ~a.data.json \/ ~a.data.hasEntities
                   THEN IsGeneric500
                   ELSE res.status = 200
          [] OTHER -> IsGeneric500

\* GET /api/stats has answered 200 for two items: the query of the floor
\* price of the first failed and its record is zeroed, the record of the
\* second is computed.
C9_Witness ==
    /\ endpoint = "stats" /\ pc = "done" /\ res.status = 200
    /\ Len(allRows) = 2
    /\ Failures = {[query |-> ItemQuery("GetFloorPrice", 1, 1),
                    failed |-> TRUE]}
    /\ res.body[1].lastTrade = Null
    /\ "volumeChange24h" \in DOMAIN res.body[2]
    /\ res.body[2].totalEthVolume24h > 0

\* C10 as stated: a request to /api/timeframe-data without the timestamp
\* parameter is answered with the generic 500.
C10_MissingTimestampIs500 ==
    (endpoint = "timeframe" /\ pc = "done" /\ timestamp \in {Absent, ""})
        => IsGeneric500

\* C10 amended: a request to /api/timeframe-data whose timestamp parameter
\* is missing or empty never sends an upstream query and is answered with
\* status 400 and the body {error: 'Timestamp required'}.
C10_MissingTimestampIs400 ==
    (endpoint = "timeframe" /\ timestamp \in {Absent, ""}) =>
        /\ sent = <<>>
        /\ pc \in {"start", "done"}
        /\ pc = "done" =>
             res = [status |-> 400, body |-> [error |-> "Timestamp required"]]

\* A request without timestamp, for a known timeframe, has been answered.
C10_Witness ==
    /\ endpoint = "timeframe" /\ pc = "done"
    /\ timestamp = Absent
    /\ timeframe = "1h"
    /\ idxTransfers # <<>>
    /\ res.status = 400

----------------------------------------------------------------------------
(* Properties of the lookups of entities the index does not hold *)

\* The request has been responded to and no upstream request has failed.
ServedWithoutFailure == pc = "done" /\ Failures = {}

\* What the first three lookups of C11 answer, and that no response is a 404.
AbsenceIsNot404 ==
    /\ res.status # 404
    /\ (endpoint = "itemStats" /\ ServedWithoutFailure
          /\ idxItem[1].item = Null) => res = Ok(Null)
    /\ (endpoint = "orderbook" /\ ServedWithoutFailure /\ idxRows = <<>>)
          => res = Ok([asks |-> <<>>])
    /\ (endpoint = "chart" /\ ServedWithoutFailure /\ idxRows = <<>>)
          => res = Ok(<<>>)

\* C11 as stated, for GET /api/balance: with no position the response is a
\* 200 whose body is null or an empty collection.
C11_NoPositionIsNullOrEmpty ==
    (endpoint = "balance" /\ ServedWithoutFailure /\ idxPosition = Null) =>
        /\ res.status = 200
        /\ res.body = Null \/ DOMAIN res.body = {}

\* C11 amended: no response is a 404; GET /api/stats/:itemId for an unknown
\* item answers 200 with null, GET /api/orderbook/:itemId without listings
\* 200 with an empty asks array, GET /api/chart-data/:itemId without
\* transfers 200 with an empty array, and GET /api/balance without a
\* position 200 with an object whose six fields are all 0.
C11_AbsenceIsNot404 ==
    /\ AbsenceIsNot404
    /\ (endpoint = "balance" /\ ServedWithoutFailure /\ idxPosition = Null) =>
         /\ res.status = 200
         /\ DOMAIN res.body = {"balance", "totalPurchased", "totalSold",
                               "avgPurchasePrice", "totalSpent", "totalEarned"}
         /\ \A field \in DOMAIN res.body : res.body[field] = 0

\* GET /api/balance has answered for a user without a position.
C11_Witness ==
    /\ endpoint = "balance" /\ ServedWithoutFailure
    /\ idxPosition = Null
    /\ answered # {}
    /\ res.status = 200


(* Properties of the batches of GET /api/stats *)

\* The items whose callback has started and has not returned.
InFlight == {i \in DOMAIN itemPc : itemPc[i] # "done"}

\* The batch of item i: allItems.slice(k * batchSize, (k + 1) * batchSize).
BatchOf(i) == (i - 1) \div batchSize

\* C12: while GET /api/stats computes the per-item statistics at most
\* batchSize (10) items have their computation in flight, and no item of
\* batch k+1 has started before every item of batch k has returned.
C12_BatchBound ==
    endpoint = "stats" =>
        /\ Cardinality(InFlight) <= batchSize
        /\ \A i, j \in DOMAIN itemPc :
             BatchOf(j) = BatchOf(i) + 1 => itemPc[i] = "done"


(* Properties of the order of the page requests *)

\* The number of rows of the pages that have been answered without failure.
RowsAnswered(loop) ==
    LET requests == PageRequests(loop.name)
        served == { k \in DOMAIN requests :
                      Answer(requests[k], "ok") \in answered }
    IN IF Cardinality(served) * PageLimit < Len(loop.rows)
       THEN Cardinality(served) * PageLimit ELSE Len(loop.rows)

\* At most one page request of the loop is outstanding, and it is the last
\* one sent; every earlier page has been answered without failure; the rows
\* accumulated are those of the answered pages, in the order of the pages.
LoopIsSequential(loop) ==
    LET requests == PageRequests(loop.name)
    IN /\ Cardinality({ query \in pending : query.q = loop.name }) <= 1
       /\ \A k \in DOMAIN requests :
            /\ requests[k] \in pending => k = Len(requests)
            /\ k < Len(requests) =>
                 /\ Answer(requests[k], "ok") \in answered
                 /\ Len(loop.fetched) >= k * PageLimit
       /\ loop.fetched = SubSeq(loop.rows, 1, RowsAnswered(loop))

\* C13: within one pagination loop page k+1 is requested only after the
\* response of page k has been received and appended, so at most one page
\* request of the loop is outstanding at any time and the rows are
\* accumulated in page order.
C13_PagesNeverOverlap == \A loop \in Loops : LoopIsSequential(loop)

\* The chart loop waits for its second page with the 1000 rows of the first
\* page accumulated.
C13_Witness ==
    /\ endpoint = "chart" /\ pc = "page"
    /\ Len(PageRequests("GetTransfers")) = 2
    /\ pending = {PageRequests("GetTransfers")[2]}
    /\ Answer(PageRequests("GetTransfers")[1], "ok") \in answered
    /\ allRows = SubSeq(idxRows, 1, PageLimit)


(* Properties of the over-fetch of GET /api/trades/:itemId *)

\* The grouping keys of a list of transfers.
KeysOf(ts) == { TradeKey(ts[i]) : i \in DOMAIN ts }

\* C14: GET /api/trades/:itemId with limit n (default 30) issues a single,
\* unpaginated query that asks for exactly 3n transfers, so at most 3n
\* transfers are considered; the response holds min(n, number of distinct
\* grouping keys among those transfers) trades.
C14_SingleQueryOfThreeTimesLimit ==
    endpoint = "trades" =>
        /\ limit = Absent => tradeLimit = 30
        /\ Len(sent) <= 1
        /\ \A k \in DOMAIN sent :
             sent[k] = Query("GetTrades", 0, 3 * tradeLimit)
        /\ TradesServed =>
             /\ Len(sent) = 1
             /\ transfers = Slice(idxTransfers, 3 * tradeLimit)
             /\ Len(transfers) <= 3 * tradeLimit
             /\ Len(res.body) =
                  IF tradeLimit < Cardinality(KeysOf(transfers))
                  THEN tradeLimit ELSE Cardinality(KeysOf(transfers))

\* The response holds fewer than n trades although the index holds more
\* than n: the 3n newest transfers share one key.
C14_Witness ==
    /\ TradesServed
    /\ tradeLimit = MaxLimit
    /\ Len(transfers) = 3 * tradeLimit
    /\ Len(res.body) = 1
    /\ Len(res.body) < tradeLimit
    /\ Cardinality(KeysOf(idxTransfers)) > tradeLimit


(* Properties of the windows of GET /api/stats/:itemId *)

\* The handler has answered with the statistics of a known item.
ItemStatsServed ==
    /\ endpoint = "itemStats" /\ pc = "done"
    /\ res.status = 200 /\ res.body # Null

\* C15: the 24h statistics of an item are sums over every transfer of the
\* window, however many there are: totalEthVolume24h is the sum of
\* totalValueETH and totalItemsSold24h the sum of amount over all transfers
\* of the last 24 hours, and the previous-window total behind
\* volumeChange24h covers every transfer of the 24 hours before.
C15_SumsCoverWholeWindow ==
    ItemStatsServed =>
        /\ res.body.totalEthVolume24h = Volume(idxItem[1].t24)
        /\ res.body.totalItemsSold24h = ItemsSold(idxItem[1].t24)
        /\ res.body.volumeChange24h =
             PercentChange(Volume(idxItem[1].t24), Volume(idxItem[1].t48))

\* C16: priceChange24h is (lastPrice - firstPrice) / firstPrice * 100 over
\* the prices of the earliest and the latest transfer of the whole 24h
\* window, when the window holds at least two transfers and the first price
\* is positive; price24hAgo is the price of the earliest transfer, and 0
\* when the window is empty.
C16_PriceChangeFirstToLatest ==
    ItemStatsServed =>
        LET window == idxItem[1].t24
            firstPrice == toNumber(window[1].pricePerItemETH)
            lastPrice == toNumber(window[Len(window)].pricePerItemETH)
        IN /\ (Len(window) >= 2 /\ firstPrice > 0) =>
                res.body.priceChange24h =
                    PercentOf(lastPrice - firstPrice, firstPrice)
           /\ res.body.price24hAgo =
                IF window = <<>> THEN 0 ELSE firstPrice


(* Properties of the interval of GET /api/timeframe-data/:itemId *)

\* The handler has answered a request for one of the three timeframes.
TimeframeServed ==
    /\ endpoint = "timeframe" /\ pc = "done" /\ res.status = 200
    /\ timeframeOrDefault \in {"1h", "4h", "1d"}

\* The transfers of the index with from <= timestamp < to.
TransfersWithin(from, to) ==
    SelectSeq(idxTransfers,
              LAMBDA t : NumberOf(t.timestamp) >= from /\ NumberOf(t.timestamp) < to)

\* startTime is the largest multiple of the interval I that is not greater
\* than the timestamp t, and endTime = startTime + I.
BucketIsAligned ==
    LET I == CASE timeframeOrDefault = "1h" -> 3600
               [] timeframeOrDefault = "4h" -> 14400
               [] timeframeOrDefault = "1d" -> 86400
        t == NumberOf(timestamp)
    IN /\ res.body.startTime % I = 0
       /\ res.body.startTime <= t
       /\ t < res.body.startTime + I
       /\ res.body.endTime = res.body.startTime + I

\* C20: GET /api/timeframe-data/:itemId, for timeframe 1h, 4h or 1d with
\* interval I and a non-negative integer timestamp t, answers with startTime
\* the largest multiple of I not greater than t and endTime = startTime + I,
\* and with totals that are the sums of amount and totalValueETH over the
\* transfers with startTime <= timestamp < endTime.
C20_BucketTotals ==
    TimeframeServed =>
        /\ BucketIsAligned
        /\ LET inside == TransfersWithin(res.body.startTime, res.body.endTime)
           IN /\ res.body.totalItemsSold = ItemsSold(inside)
              /\ res.body.totalEthVolume = Volume(inside)


(* Properties of the timers of the dashboard *)

\* The 30 s interval fires in this step.
RefreshFires == refreshElapsed = RefreshTicks /\ refreshElapsed' = 0

\* The 120 s interval fires in this step.
LoadFires == loadElapsed = LoadTicks /\ loadElapsed' = 0

\* The 5 s interval fires in this step.
TickerFires == tickerElapsed = TickerTicks /\ tickerElapsed' = 0

\* The fetches issued in this step.
Issued == inflight' \ inflight

\* C17: while the dashboard is mounted and an item is selected, the 30 s
\* interval is never late, and every time it fires the UI issues fetches of
\* /api/stats, /api/trades and /api/orderbook for the item selected at that
\* moment, whether or not earlier fetches are still in flight.
C17_PollsSelectedItem ==
    /\ [](refreshElapsed \in 0..RefreshTicks)
    /\ [][(RefreshFires /\ currentItem # NoItem) =>
            \A route \in {"stats", "trades", "orderbook"} :
                \E fetch \in Issued :
                    fetch.route = route /\ fetch.item = currentItem]_vars

\* C18: while the dashboard is mounted the 120 s interval is never late,
\* every time it fires loadRecentTradesForTicker fetches the trades of the
\* known items, and the 5 s rotation interval neither delays nor cancels
\* the 120 s interval.
C18_TickerDataRefreshed ==
    /\ [](loadElapsed \in 0..LoadTicks)
    /\ [][LoadFires =>
            \A item \in itemDetails :
                \E fetch \in Issued :
                    /\ fetch.route = "trades"
                    /\ fetch.item = item
                    /\ fetch.limit = "3"]_vars
    /\ [][TickerFires => loadElapsed' = loadElapsed]_vars

(* Properties of the failures seen by the dashboard *)

\* C19: when a load of the trades or of the order book of the selected
\* item has failed (fetch rejected, or a response that is not 2xx),
\* recentTrades, respectively orderBook, is empty: no data of an item loaded
\* before remains.
C19_FailedLoadEmptiesList ==
    (/\ completed.outcome \in {"http_error", "rejected"}
     /\ completed.limit = Absent
     /\ completed.item = currentItem) =>
        /\ completed.route = "trades" => recentTrades = <<>>
        /\ completed.route = "orderbook" => orderBook = <<>>


----------------------------------------------------------------------------
(* Properties of the market-wide figures and of the order of /api/stats *)

\* C22: in every computed per-item record of GET /api/stats,
\* totalMarketVolume24h is the volume of the whole market in the last 24h,
\* the same in every record, and marketVolumeChange24h is the change of the
\* market-wide volume against the 24h before.
C22_MarketFiguresAreMarketWide ==
    \A i \in Computed :
        /\ res.body[i].totalMarketVolume24h =
               Volume(MarketRows("GetMarketVolume24h"))
        /\ res.body[i].marketVolumeChange24h =
               PercentChange(Volume(MarketRows("GetMarketVolume24h")),
                             Volume(MarketRows("GetMarketVolume48h")))


\* The items of the list with a per-item query that failed.
FailedItems == { a.query.item : a \in Failures }

\* C23: GET /api/stats answers with exactly one record per item of the item
\* list, in the order of the list, whatever the order in which the per-item
\* queries are answered; the record of an item with a failed query is the
\* zeroed record carrying its itemId, and the record of every other item is
\* the one computed from its own windows and floor listing.
C23_OneRecordPerItemInOrder ==
    (endpoint = "stats" /\ pc = "done" /\ res.status = 200) =>
        /\ DOMAIN res.body = DOMAIN idxRows
        /\ \A i \in DOMAIN res.body :
             /\ res.body[i].itemId = idxRows[i].id
             /\ IF i \in FailedItems
                THEN IsZeroed(i)
                ELSE res.body[i] =
                       ItemRecord(idxRows[i], Returned(idxItem[i].t24),
                                  Returned(idxItem[i].t48),
                                  Slice(idxItem[i].floor, 1))

\* GET /api/stats has answered for two items whose queries were answered
\* alternately, the last query of the second item before the last of the
\* first: the 48h query of the first item failed, its record is zeroed and
\* the record of the second item is computed.
C23_Witness ==
    /\ endpoint = "stats" /\ pc = "done" /\ res.status = 200
    /\ Len(allRows) = 2
    /\ FailedItems = {1}
    /\ [query |-> ItemQuery("Get48hTransfers", 1, WindowLimit),
        failed |-> TRUE] \in answered
    /\ res.body[1].itemId = "1" /\ res.body[1].lastTrade = Null
    /\ res.body[2].itemId = "2"
    /\ "volumeChange24h" \in DOMAIN res.body[2]
    /\ res.body[2].totalEthVolume24h > 0
    /\ \E m, n \in DOMAIN sent :
         /\ m < n
         /\ sent[m] = ItemQuery("GetFloorPrice", 2, 1)
         /\ sent[n] = ItemQuery("Get48hTransfers", 1, WindowLimit)


----------------------------------------------------------------------------
(* Properties of the completeness of the trades of GET /api/trades/:itemId *)

\* The transfers of the index that carry the grouping key of a trade.
TransfersOfTrade(trade) ==
    LET SameKey(t) == /\ t.txHash = trade.tx
                      /\ toNumber(t.pricePerItemETH) = trade.price
                      /\ t.transferredTo.id = trade.buyer
    IN SelectSeq(idxTransfers, SameKey)

\* C26: every trade that GET /api/trades/:itemId returns is complete: its
\* amount, ethSpent and tradeCount are the totals over all transfers of the
\* index that share its grouping key, also when those transfers straddle
\* the cut-off of the 3n transfers asked for.
C26_TradesAreComplete ==
    TradesServed =>
        \A k \in DOMAIN res.body :
            LET all == TransfersOfTrade(res.body[k])
            IN /\ res.body[k].amount =
                    SumOver(all, LAMBDA t : ParseInt(t.amount))
               /\ res.body[k].ethSpent =
                    SumOver(all, LAMBDA t : toNumber(t.totalValueETH))
               /\ res.body[k].tradeCount = Len(all)


----------------------------------------------------------------------------
(* Properties of the panels of the selected item *)

\* The fetches of the three panels that are outstanding.
PanelFetches ==
    { f \in inflight : f.route \in {"stats", "trades", "orderbook"}
                         /\ f.limit = Absent }

\* The fetch that settles in a step.
Settling == inflight \ inflight'

\* C24: once every outstanding fetch of the panels has completed, the
\* displayed stats, recentTrades and orderBook are those of the currently
\* selected item; and a response for another item than the selected one
\* changes none of the three.
C24_PanelsShowSelectedItem ==
    /\ []((endpoint = "dashboard" /\ currentItem # NoItem
             /\ PanelFetches = {}) =>
            /\ statsState \in StatsBodies(currentItem)
            /\ recentTrades \in TradeBodies(currentItem)
            /\ orderBook \in { b.asks : b \in OrderbookBodies(currentItem) })
    /\ [][\A f \in Settling :
            (f.limit = Absent /\ f.item # currentItem) =>
                UNCHANGED <<statsState, recentTrades, orderBook>>]_vars


----------------------------------------------------------------------------
(* The ticker *)

\* The list of the ticker is never filled and its index never moves: the
\* functions that the ticker's timers and initTicker call are those of the
\* first render, whose itemDetails is empty.  updateTicker therefore returns
\* at its first line in every reachable state, and the range of tickerIndex
\* in a non-empty list (C30) is never put to the test.
TickerListStaysEmpty ==
    endpoint = "dashboard" =>
        /\ allRecentTrades = <<>>
        /\ tickerIndex = 0
        /\ tickerRender = FirstRender


----------------------------------------------------------------------------
(* Properties of /api/orderbook over an index that changes *)

\* The ids of the listings the handler has fetched.
FetchedIds == { allRows[i].id : i \in DOMAIN allRows }

\* C25: when the active listings of the index change between two page
\* requests of one /api/orderbook request, no listing is counted more than
\* once, and every listing that was active during the whole request (one
\* that the index held at the start and still holds) is counted.
C25_ChangingIndexIsCountedOnce ==
    OrderbookServed =>
        /\ Cardinality(FetchedIds) = Len(allRows)
        /\ \A i \in DOMAIN idxRows :
             idxRows[i] \notin NewListings => idxRows[i].id \in FetchedIds


----------------------------------------------------------------------------
(* Properties of the wallet panel *)

\* Operation n sets a non-empty message in a step and schedules its removal
\* after the given delay.
Announces(n, delay) ==
    /\ message' # ""
    /\ messageOp' = n
    /\ [remaining |-> delay \div Second, op |-> n] \in timeouts' \ timeouts

\* The delay after which the message of a settled call is removed: 8 s after
\* a session key was created, 5 s otherwise.
DelayOf(call) ==
    IF call.op = "createSession" /\ sessionKey' = call.signer
    THEN SessionBannerDelay ELSE BannerDelay

\* C21: every wallet operation, when its call of the wallet library settles
\* with success or with an error and when createSessionKey returns early,
\* sets a non-empty message and schedules its removal after 5 s (8 s after a
\* session key was created); a message that is shown has its removal
\* pending, and every message shown is eventually removed.
C21_EveryOperationAnnouncesAndClears ==
    /\ [][/\ \A call \in calls \ calls' : Announces(call.id, DelayOf(call))
          /\ (started' # started /\ calls' = calls) =>
                 Announces(started', BannerDelay)]_vars
    /\ [](message # "" => \E timeout \in timeouts : timeout.op = messageOp)
    /\ (message # "" ~> message = "")

\* Three operations were started, the last of which created a session key;
\* every call has settled, every removal has fired and no message is shown.
C21_Witness ==
    /\ endpoint = "wallet"
    /\ started = MaxOps /\ calls = {}
    /\ sessionKey = SignerAddress(MaxOps)
    /\ timeouts = {}
    /\ message = ""


\* The calls awaited by handleConnect and createSessionKey.
LoadingCalls == { call \in calls : call.op \in {"login", "createSession"} }

\* A step of createSessionKey from the click to its first await or return.
CreateSessionKeyIsCalled ==
    /\ started' # started
    /\ \/ calls' = calls
       \/ \E call \in calls' \ calls : call.op = "createSession"

\* C27: loading is true exactly while a call of login or createSessionAsync
\* made by handleConnect or createSessionKey is awaited, and false after
\* every such call has settled; createSessionKey called while not connected
\* or without a wallet client starts no session creation, leaves loading
\* alone and changes nothing but the message and its removal.
C27_LoadingWhileAwaiting ==
    /\ [](endpoint = "wallet" => (loading <=> LoadingCalls # {}))
    /\ [][CreateSessionKeyIsCalled =>
            IF ~isConnected \/ ~abstractClient
            THEN /\ calls' = calls
                 /\ UNCHANGED <<loading, sessionKey, sessionExpiry,
                                isConnected, abstractClient, seconds>>
                 /\ message' = "Please connect AGW first"
            ELSE /\ loading'
                 /\ UNCHANGED <<message, timeouts>>]_vars

\* createSessionKey was called after a login and before the wallet client
\* arrived: its message is shown, loading is false and nothing is awaited.
C27_Witness ==
    /\ endpoint = "wallet"
    /\ isConnected /\ ~abstractClient
    /\ message = "Please connect AGW first"
    /\ started = 2
    /\ ~loading /\ calls = {}
    /\ sessionKey = NoSession


\* The messages of a session key that was created.
SessionMessages == { SessionMessage(h) : h \in TransactionHashes }

\* C28: sessionKey and sessionExpiry are both null or both set.  They are
\* set only when createSessionAsync of a createSessionKey call succeeds, to
\* the address of the key generated by that call and to the second in which
\* the call generated it plus 86400, and a failed call leaves them as they
\* are; a successful logout of handleDisconnect resets both to null and a
\* failed logout leaves both as they are; no other step changes them.
C28_SessionKeyAndExpiryTogether ==
    /\ []((sessionKey = NoSession) <=> (sessionExpiry = NoExpiry))
    /\ [][IF \E call \in calls \ calls' : call.op # "login"
          THEN \A call \in calls \ calls' :
                 CASE call.op = "createSession" /\ message' \in SessionMessages ->
                        /\ sessionKey' = call.signer
                        /\ sessionExpiry' = call.at + 86400
                   [] call.op = "logout"
                        /\ message' = "AGW Disconnected Successfully" ->
                        /\ sessionKey' = NoSession
                        /\ sessionExpiry' = NoExpiry
                   [] OTHER -> UNCHANGED <<sessionKey, sessionExpiry>>
          ELSE UNCHANGED <<sessionKey, sessionExpiry>>]_vars

\* A session key was created by a call started in second 1 that succeeded
\* two seconds later: the expiry is 86401.
C28_Witness ==
    /\ endpoint = "wallet"
    /\ sessionKey = SignerAddress(2)
    /\ sessionExpiry = 1 + 86400
    /\ seconds = 3
    /\ messageOp = 2
    /\ message \in SessionMessages


\* C29: a message stays displayed for its full duration (5 s, or 8 s after
\* a session key was created) unless a newer message replaces it: the step
\* that empties the message is the firing of the removal scheduled with the
\* message shown, never that of the removal of an earlier message.
C29_RemovalClearsItsOwnMessage ==
    [][(message # "" /\ message' = "") =>
          \E timeout \in timeouts \ timeouts' :
              /\ timeout.op = messageOp
              /\ timeout.remaining = 0]_vars

====
